---- MODULE Spec2Model ----
(***************************************************************************)
(* A model of githubapifetch: the storage layer (StoreRepository,          *)
(* GetByName, GetLatestDate, BatchInsert), the GitHub client               *)
(* (FetchCommits), the per-repository pass (RepositoryProcessor.Process)   *)
(* and the monitoring tick (checkRepositories).                            *)
(*                                                                         *)
(* Times are natural numbers; 0 is Go's zero time.Time.  The two SQL       *)
(* tables are sets of rows, so that the UNIQUE constraints are properties  *)
(* of the statements that write them and not of the representation.        *)
(***************************************************************************)
EXTENDS Integers, Sequences, FiniteSets, TLC

(***************************************************************************)
(* Bounds of the model.                                                    *)
(***************************************************************************)
\* StoreRepository calls in one behaviour (each call draws one SERIAL id)
MaxStores == 2
\* length of the list handed to one BatchInsert
MaxCommits == 3
\* the latest commit date
MaxDate == 2
\* BatchInsert calls in one behaviour
MaxBatches == 2
\* values each RepoResponse field takes
MaxSnapshot == 2
\* Process passes in one behaviour
MaxPasses == 2
\* repository rows a tick finds
MaxTickRepos == 3
MaxLoopRepos == 2
\* responses the scripted server holds
MaxScript == 3
\* records of one page
MaxPageLen == 1
\* the latest X-RateLimit-Reset
MaxReset == 2
MaxPoolRepos == 6
MaxPoolCommits == 11
\* the latest since handed to FetchCommits, in half seconds
MaxSince == 3

(***************************************************************************)
(* Program constants.                                                      *)
(***************************************************************************)
\* const batchSize = 1000, scaled so that a list of MaxCommits records
\* spans more than one chunk
batchSize == 2
\* const maxWorkers = 5, in BatchInsert and in checkRepositories alike
maxWorkers == 5

\* a semaphore of any capacity
SemNeverFull(n) == FALSE

\* sem := make(chan struct{}, maxWorkers): a send blocks while maxWorkers
\* slots are in use
SemFull(n) == n >= maxWorkers

Owners == {"o1", "o2"}
Names == {"n1", "n2"}
SHAs == {"a", "b"}
Dates == 1..MaxDate

\* the sentinel errors of db/errors.go; an error value is the sentinel it
\* wraps (or "other" for a driver error) and whether fmt.Errorf wrapped it
ErrNoCommitsFound == "no commits found"
ErrRepositoryNotFound == "repository not found"
ErrInvalidInput == "invalid input"
ErrTransactionFailed == "transaction failed"
DriverError == "driver error"
Wrap(sentinel) == [kind |-> sentinel, wrapped |-> TRUE]
Nil == [kind |-> "nil", wrapped |-> FALSE]
\* errors.Is: the sentinel is somewhere in the chain
ErrorIs(err, sentinel) == err.kind = sentinel
\* err == sentinel: the very value, not a wrapper of it
ErrorEq(err, sentinel) == err.kind = sentinel /\ ~err.wrapped

VARIABLES
  repositories,  \* table repositories: a set of rows
  nextRepoId,    \* the SERIAL sequence of repositories.id
  commits,       \* table commits: the committed rows
  biPc,          \* BatchInsert: "idle", "workers", "returned"
  biLen,         \* BatchInsert: len(commits) of its argument
  biRows,        \* BatchInsert: rows the open transaction wrote, not yet committed
  biWorker,      \* BatchInsert: per chunk, the goroutine's place and the rest of its batch
  biSem,         \* BatchInsert: slots of sem in use
  biErrChan,     \* BatchInsert: errors sent to errChan
  biResult,      \* BatchInsert: the returned error
  biOk,          \* history: statements of the running call that succeeded
  biPre,         \* history: the committed rows when the running call was made
  biAll,         \* history: the rows if every record of the list is written
  biCalls,       \* history: BatchInsert calls made so far
  biStale,       \* history: the running call wrote a record not newer than the stored one
  biWrote,       \* history: a statement of the running call inserted or updated a row
  biIO,          \* history: the storage calls the running call has made
  srCall,        \* history: the last StoreRepository call: its argument, its error and
                 \* the number of statements it sent to the database
  rdCall         \* history: the last GetByName or GetLatestDate call, likewise

dbVars == <<repositories, nextRepoId, commits>>
biVars == <<biPc, biLen, biRows, biWorker, biSem, biErrChan, biResult, biOk, biPre, biAll,
            biCalls, biStale, biWrote, biIO>>

----------------------------------------------------------------------------
(***************************************************************************)
(* Table repositories.                                                     *)
(***************************************************************************)

\* models.Repository as the service builds it from a RepoResponse
RepoModel(owner, name, v, created) ==
  [name |-> name, owner |-> owner, url |-> v, created_at |-> created,
   updated_at |-> v, description |-> v, language |-> v, forks_count |-> v,
   stars_count |-> v, open_issues_count |-> v, watchers_count |-> v]

RowOf(id, repo) ==
  [id |-> id, name |-> repo.name, owner |-> repo.owner, url |-> repo.url,
   created_at |-> repo.created_at, updated_at |-> repo.updated_at,
   description |-> repo.description, language |-> repo.language,
   forks_count |-> repo.forks_count, stars_count |-> repo.stars_count,
   open_issues_count |-> repo.open_issues_count,
   watchers_count |-> repo.watchers_count]

\* a conflict target that no proposed row ever meets
RepoConflictsNever(tbl, repo) == {r \in tbl : r.id = 0}

\* ON CONFLICT (name, owner): the rows the proposed row conflicts with
RepoConflicts(tbl, repo) ==
  {r \in tbl : r.name = repo.name /\ r.owner = repo.owner}

\* a SET list that leaves out language
RepoUpdateNoLanguage(r, repo) ==
  [r EXCEPT !.url = repo.url, !.updated_at = repo.updated_at,
            !.description = repo.description,
            !.forks_count = repo.forks_count, !.stars_count = repo.stars_count,
            !.open_issues_count = repo.open_issues_count,
            !.watchers_count = repo.watchers_count]

\* DO UPDATE SET ...: created_at, name, owner and id are not in the list
RepoUpdate(r, repo) ==
  [r EXCEPT !.url = repo.url, !.updated_at = repo.updated_at,
            !.description = repo.description, !.language = repo.language,
            !.forks_count = repo.forks_count, !.stars_count = repo.stars_count,
            !.open_issues_count = repo.open_issues_count,
            !.watchers_count = repo.watchers_count]

\* INSERT INTO repositories ... ON CONFLICT (name, owner) DO UPDATE
UpsertRepository(tbl, id, repo) ==
  IF RepoConflicts(tbl, repo) = {}
  THEN tbl \cup {RowOf(id, repo)}
  ELSE {IF r \in RepoConflicts(tbl, repo) THEN RepoUpdate(r, repo) ELSE r : r \in tbl}

\* an input check that looks at the name only
InvalidRepoNameOnly(repo) == repo.name = ""

\* if repo.Name == "" || repo.Owner == ""
InvalidRepo(repo) == repo.name = "" \/ repo.owner = ""

\* StoreRepository: the input check, then the statement (which may fail in
\* the driver); the SERIAL default is drawn before the conflict is detected
StoreRepository(repo, fails) ==
  /\ nextRepoId <= MaxStores
  /\ IF InvalidRepo(repo)
     THEN /\ srCall' = [repo |-> repo, err |-> Wrap(ErrInvalidInput), io |-> 0]
          /\ UNCHANGED <<repositories, nextRepoId>>
     ELSE IF fails
     THEN /\ srCall' = [repo |-> repo, err |-> Wrap(DriverError), io |-> 1]
          /\ UNCHANGED <<repositories, nextRepoId>>
     ELSE /\ srCall' = [repo |-> repo, err |-> Nil, io |-> 1]
          /\ repositories' = UpsertRepository(repositories, nextRepoId, repo)
          /\ nextRepoId' = nextRepoId + 1
  /\ UNCHANGED <<commits, biVars>>

\* GetByName: SELECT ... WHERE name = $1, scanned into one struct: the first
\* row of the result, which has no ORDER BY
GetByNameRows(name) == {r \in repositories : r.name = name}

----------------------------------------------------------------------------
(***************************************************************************)
(* Table commits.                                                          *)
(***************************************************************************)

Commit(sha, repoID, date, tag) ==
  [sha |-> sha, repository_id |-> repoID, message |-> tag,
   author_name |-> tag, date |-> date, url |-> tag]

\* the update without its WHERE clause
CommitUpdateAlways(r, c) ==
  [r EXCEPT !.message = c.message, !.author_name = c.author_name,
            !.date = c.date, !.url = c.url]

\* an update that takes the date of the record whatever it is
CommitAppliesAlways(r, c) == TRUE

\* a WHERE clause that also lets an equal date through
CommitAppliesNotOlder(r, c) == r.date <= c.date

\* WHERE commits.date < EXCLUDED.date
CommitApplies(r, c) == r.date < c.date

\* a SET list with repository_id in it
CommitUpdateMoves(r, c) ==
  IF CommitApplies(r, c) THEN c ELSE r

\* ON CONFLICT (sha) DO UPDATE SET message, author_name, date, url WHERE ...
CommitUpdate(r, c) ==
  IF CommitApplies(r, c)
  THEN [r EXCEPT !.message = c.message, !.author_name = c.author_name,
                 !.date = c.date, !.url = c.url]
  ELSE r

\* a key over the hash and the repository together
CommitConflictsSameRepo(r, c) == r.sha = c.sha /\ r.repository_id = c.repository_id

\* UNIQUE(sha), and ON CONFLICT (sha)
CommitConflicts(r, c) == r.sha = c.sha

\* INSERT INTO commits ... ON CONFLICT (sha) DO UPDATE ... WHERE ...
UpsertCommit(tbl, c) ==
  IF \E r \in tbl : CommitConflicts(r, c)
  THEN {IF CommitConflicts(r, c) THEN CommitUpdate(r, c) ELSE r : r \in tbl}
  ELSE tbl \cup {c}

\* the statement inserted a row or updated one
RowAffected(tbl, c) ==
  \A r \in tbl : CommitConflicts(r, c) => CommitApplies(r, c)

\* the dates of the records that reference the repository row r
OwnDates(r) == {c.date : c \in {x \in commits : x.repository_id = r.id}}

\* a commits table without the REFERENCES constraint
ForeignKeyUnchecked(tbl, c) == TRUE

\* repository_id REFERENCES repositories(id): checked when a row is inserted
ForeignKeyOk(tbl, c) ==
  \/ \E r \in tbl : CommitConflicts(r, c)
  \/ \E r \in repositories : r.id = c.repository_id

Max(S) == CHOOSE x \in S : \A y \in S : y <= x

\* GetLatestDate: SELECT MAX(c.date) FROM commits c JOIN repositories r
\* ON c.repository_id = r.id WHERE r.name = $1.  The aggregate always yields
\* one row, NULL when nothing joins.
JoinedDates(name) ==
  {c.date : c \in {x \in commits : \E r \in repositories :
                                      r.id = x.repository_id /\ r.name = name}}

GetLatestDate(name) ==
  IF name = "" THEN [date |-> 0, err |-> Wrap(ErrInvalidInput)]
  ELSE IF JoinedDates(name) = {} THEN [date |-> 0, err |-> Wrap(ErrNoCommitsFound)]
  ELSE [date |-> Max(JoinedDates(name)), err |-> Nil]

----------------------------------------------------------------------------
(***************************************************************************)
(* BatchInsert: one transaction, one goroutine per chunk.                  *)
(***************************************************************************)

\* what the open transaction sees: its own rows over the committed ones
TxView == {r \in commits : ~\E w \in biRows : CommitConflicts(w, r)} \cup biRows

\* for i := 0; i < len(commits); i += batchSize
Chunks(list) == {k \in 0..Len(list) : k * batchSize < Len(list)}
ChunkFirst(k) == k * batchSize + 1
ChunkLast(list, k) ==
  IF (k + 1) * batchSize > Len(list) THEN Len(list) ELSE (k + 1) * batchSize

\* the lists a caller hands over: the records of one repository id as one
\* pass observed them, no record twice
TagOf(id) == IF id = 1 THEN "t1" ELSE "t2"
Injective(f) == \A i, j \in DOMAIN f : f[i] = f[j] => i = j
CommitLists ==
  UNION {{l \in [1..n -> {Commit(s, id, d, TagOf(id)) : s \in SHAs, d \in Dates}] :
            Injective(l)} : n \in 0..MaxCommits, id \in 1..MaxStores}

\* the rows after every record of list is written to tbl, in list order
RECURSIVE UpsertAll(_, _)
UpsertAll(tbl, list) ==
  IF list = <<>> THEN tbl ELSE UpsertAll(UpsertCommit(tbl, Head(list)), Tail(list))

\* batch := commits[i:end]
Batch(list, k) == SubSeq(list, ChunkFirst(k), ChunkLast(list, k))

\* a call that takes no list for empty
IsEmptyNever(list) == FALSE

\* len(commits) == 0
IsEmpty(list) == Len(list) = 0

\* if len(commits) == 0 { return nil }; BeginTx; PrepareContext; the loop
\* that starts the goroutines
BatchInsertCall(list, fault) ==
  /\ biPc = "idle"
  /\ biCalls < MaxBatches
  /\ biCalls' = biCalls + 1
  /\ biLen' = Len(list)
  /\ biPre' = commits
  /\ biAll' = UpsertAll(commits, list)
  /\ biRows' = {}
  /\ biSem' = 0
  /\ biErrChan' = <<>>
  /\ biOk' = 0
  /\ biStale' = FALSE
  /\ biWrote' = FALSE
  /\ IF IsEmpty(list)
     THEN /\ biPc' = "returned"
          /\ biResult' = Nil
          /\ biWorker' = <<>>
          /\ biIO' = {}
     ELSE IF fault = "begin"
     THEN /\ biPc' = "returned"
          /\ biResult' = Wrap(ErrTransactionFailed)
          /\ biWorker' = <<>>
          /\ biIO' = {"BeginTx"}
     ELSE IF fault = "prepare"
     THEN /\ biPc' = "returned"
          /\ biResult' = Wrap(DriverError)
          /\ biWorker' = <<>>
          /\ biIO' = {"BeginTx", "Prepare", "Rollback"}
     ELSE /\ biPc' = "workers"
          /\ biResult' = Nil
          /\ biIO' = {"BeginTx", "Prepare"}
          /\ biWorker' = [k \in Chunks(list) |-> [pc |-> "acquire", batch |-> Batch(list, k)]]
  /\ UNCHANGED <<dbVars, srCall>>

\* an error channel without a buffer: make(chan error)
ErrChanUnbuffered(n) == n - n

\* errChan := make(chan error, len(commits)), make(chan error, len(repos))
ErrChanCap(n) == n

\* errChan <- err by a worker: nothing receives before wg.Wait() is over, so
\* a send that finds the buffer full stays blocked (pc "send")
SendBlocks(ch, n) == Len(ch) >= ErrChanCap(n)

\* sem <- struct{}{}
WorkerAcquire(k) ==
  /\ biPc = "workers"
  /\ biWorker[k].pc = "acquire"
  /\ ~SemFull(biSem)
  /\ biSem' = biSem + 1
  /\ biWorker' = [biWorker EXCEPT ![k].pc = "exec"]
  /\ UNCHANGED <<dbVars, srCall, biPc, biLen, biRows, biErrChan, biResult, biOk, biPre, biAll,
               biCalls, biStale, biWrote, biIO>>

\* one iteration of for _, commit := range batch: stmt.ExecContext, and on an
\* error the send to errChan and the return; after the last record the loop
\* ends
WorkerExec(k, fails) ==
  /\ biPc = "workers"
  /\ biWorker[k].pc = "exec"
  /\ LET c == Head(biWorker[k].batch)
         rest == Tail(biWorker[k].batch)
     IN IF ~fails /\ ForeignKeyOk(TxView, c)
        THEN /\ biRows' = {r \in UpsertCommit(TxView, c) : r \notin commits}
             /\ biWorker' = [biWorker EXCEPT ![k] =
                               [pc |-> IF rest = <<>> THEN "release" ELSE "exec",
                                batch |-> rest]]
             /\ biOk' = biOk + 1
             /\ biStale' = (biStale \/ \E r \in TxView :
                                         r.sha = c.sha /\ r.date >= c.date /\ r.message # c.message)
             /\ biWrote' = (biWrote \/ RowAffected(TxView, c))
             /\ UNCHANGED biErrChan
        ELSE /\ biErrChan' = IF SendBlocks(biErrChan, biLen) THEN biErrChan
                              ELSE Append(biErrChan, Wrap(DriverError))
             /\ biWorker' = [biWorker EXCEPT ![k] =
                               [pc |-> IF SendBlocks(biErrChan, biLen) THEN "send" ELSE "release",
                                batch |-> <<>>]]
             /\ UNCHANGED <<biRows, biOk, biStale, biWrote>>
  /\ biIO' = biIO \cup {"Exec"}
  /\ UNCHANGED <<dbVars, srCall, biPc, biLen, biSem, biResult, biPre, biAll, biCalls>>

\* defer func() { <-sem }(); defer wg.Done()
WorkerRelease(k) ==
  /\ biPc = "workers"
  /\ biWorker[k].pc = "release"
  /\ biSem' = biSem - 1
  /\ biWorker' = [biWorker EXCEPT ![k].pc = "done"]
  /\ UNCHANGED <<dbVars, srCall, biPc, biLen, biRows, biErrChan, biResult, biOk, biPre, biAll,
               biCalls, biStale, biWrote, biIO>>

\* fmt.Errorf("errors occurred while inserting commits: %v", errs): the
\* collected errors are formatted with %v, so the result wraps nothing
InsertErrors == [kind |-> "errors occurred while inserting commits", wrapped |-> FALSE]

\* Commit attempted before the collected errors are looked at
CommitDecisionCommitFirst(errs, commitFails) ==
  IF commitFails THEN [err |-> Wrap(ErrTransactionFailed), rows |-> commits]
  ELSE [err |-> IF Len(errs) > 0 THEN InsertErrors ELSE Nil, rows |-> TxView]

\* the rows after return: with errors collected the deferred tx.Rollback()
\* discards the transaction's rows; a failed Commit leaves it rolled back
CommitDecision(errs, commitFails) ==
  IF Len(errs) > 0 THEN [err |-> InsertErrors, rows |-> commits]
  ELSE IF commitFails THEN [err |-> Wrap(ErrTransactionFailed), rows |-> commits]
  ELSE [err |-> Nil, rows |-> TxView]

\* a wait that is over as soon as one worker is done
ChunksDoneFirst(workers) ==
  \E k \in DOMAIN workers : workers[k].pc = "done"

\* wg.Wait(): every worker has run its deferred wg.Done()
ChunksDone(workers) ==
  \A k \in DOMAIN workers : workers[k].pc = "done"

\* wg.Wait(); close(errChan); collect; return or tx.Commit()
BatchInsertReturn(commitFails) ==
  /\ biPc = "workers"
  /\ ChunksDone(biWorker)
  /\ biPc' = "returned"
  /\ biResult' = CommitDecision(biErrChan, commitFails).err
  /\ commits' = CommitDecision(biErrChan, commitFails).rows
  /\ biRows' = {}
  /\ biIO' = biIO \cup (IF Len(biErrChan) > 0 THEN {"Rollback"} ELSE {"Commit"})
  /\ UNCHANGED <<repositories, nextRepoId, srCall, biLen, biWorker, biSem, biErrChan, biOk,
               biPre, biAll, biCalls, biStale, biWrote>>

\* the caller takes the result; the next call may start
BatchInsertDone ==
  /\ biPc = "returned"
  /\ biPc' = "idle"
  /\ biLen' = 0
  /\ biWorker' = <<>>
  /\ biErrChan' = <<>>
  /\ biResult' = Nil
  /\ biOk' = 0
  /\ biPre' = {}
  /\ biAll' = {}
  /\ biStale' = FALSE
  /\ biWrote' = FALSE
  /\ biIO' = {}
  /\ UNCHANGED <<dbVars, srCall, biRows, biSem, biCalls>>

----------------------------------------------------------------------------
(***************************************************************************)
(* The GitHub client: FetchCommits against a scripted server.              *)
(***************************************************************************)

VARIABLES
  fcServer,   \* the server: the response to the i-th request it receives
  fcPc,       \* FetchCommits: "idle", "request", "response", "returned"
  fcSince,    \* FetchCommits: the since argument, 0 the zero time
  fcPage,     \* FetchCommits: page
  fcAll,      \* FetchCommits: allCommits
  fcReqs,     \* the requests the server received, in order
  fcResp,     \* FetchCommits: resp of the running iteration
  fcClock,    \* the wall clock, 0 when the call is made
  fcResult,   \* FetchCommits: the returned slice and error
  frPc,       \* FetchRepo: "idle", "returned"
  frReqs,     \* FetchRepo: the number of requests it sent
  frResult    \* FetchRepo: the returned pointer and error

frVars == <<frPc, frReqs, frResult>>
fcVars == <<fcServer, fcPc, fcSince, fcPage, fcAll, fcReqs, fcResp, fcClock, fcResult, frVars>>

\* perPage := 100
perPage == 100

StatusOK == 200
StatusUnauthorized == 401
StatusForbidden == 403
StatusNotFound == 404

\* Link header values, character by character:
\* empty, <u>; rel="next" and <u>
LinkNone == <<>>
LinkRelNext ==
  <<"<", "u", ">", ";", " ", "r", "e", "l", "=", "\"", "n", "e", "x", "t", "\"">>
LinkBare == <<"<", "u", ">">>
Links == {LinkNone, LinkRelNext, LinkBare}

\* a response: status code, X-RateLimit-Remaining, X-RateLimit-Reset, the
\* number of records of its body, its Link header, and whether the body
\* decodes as a JSON array of commits
Response(status, remaining, reset, n, link, json) ==
  [status |-> status, remaining |-> remaining, reset |-> reset, n |-> n, link |-> link,
   json |-> json]

Responses ==
  {Response(StatusOK, "4999", 0, n, l, TRUE) : n \in 0..MaxPageLen, l \in Links}
    \cup {Response(StatusOK, "4999", 0, 0, LinkNone, FALSE)}
    \cup {Response(StatusForbidden, "0", t, 0, LinkNone, TRUE) : t \in 1..MaxReset}
    \cup {Response(StatusForbidden, "4999", 0, 0, LinkNone, TRUE),
          Response(StatusUnauthorized, "4999", 0, 0, LinkNone, TRUE),
          Response(StatusNotFound, "4999", 0, 0, LinkNone, TRUE)}

Scripts == UNION {[1..n -> Responses] : n \in 0..MaxScript}

\* the body of the i-th response: its records, named by i and their place
BodyOf(i, resp) == [j \in 1..resp.n |-> [sha |-> <<i, j>>]]

\* a time is a number of half seconds after the zero time
SubSeconds == 2

\* since.Format(time.RFC3339): the layout has whole seconds, the fraction of
\* a second is dropped
FormatRFC3339(t) == t \div SubSeconds

\* since.IsZero()
IsZero(t) == t = 0

\* a query that carries since whatever it is
QueryAlwaysSince(page, since) ==
  {<<"page", page>>, <<"per_page", perPage>>, <<"since", FormatRFC3339(since)>>}

\* q.Set("page", ...); q.Set("per_page", ...); since only when not zero
Query(page, since) ==
  {<<"page", page>>, <<"per_page", perPage>>}
    \cup (IF ~IsZero(since) THEN {<<"since", FormatRFC3339(since)>>} ELSE {})

\* fmt.Errorf("failed to fetch commits: status code %d", resp.StatusCode),
\* fmt.Errorf("failed to fetch repository: status code %d", resp.StatusCode):
\* a new error that wraps nothing and differs by the code in its text
StatusError(code) ==
  [kind |-> IF code = StatusForbidden THEN "status code 403"
            ELSE IF code = StatusUnauthorized THEN "status code 401"
            ELSE IF code = StatusNotFound THEN "status code 404"
            ELSE "status code",
   wrapped |-> FALSE]
\* fmt.Errorf("failed to fetch commits: %w", err) of httpClient.Do
TransportError == "transport error"
\* fmt.Errorf("failed to decode commits response: %w", err) of Decode
DecodeError == "decode error"

\* a failing return that hands back the commits accumulated so far
FailResultPartial(all, err) == [commits |-> all, err |-> err]

\* return nil, err
FailResult(all, err) == [commits |-> <<>>, err |-> err]

\* containsNextPage: the header is not empty and its last byte is '>'
containsNextPage(linkHeader) ==
  linkHeader # <<>> /\ linkHeader[Len(linkHeader)] = ">"

\* handleRateLimit: on 403 with X-RateLimit-Remaining "0" sleep until the
\* reset time (no sleep when it is past); it returns nil either way.  The
\* value is the clock after it returned.
handleRateLimit(resp, now) ==
  IF resp.status = StatusForbidden /\ resp.remaining = "0"
  THEN (IF resp.reset > now THEN resp.reset ELSE now)
  ELSE now

\* the call: var allCommits; page := 1
FetchCommitsCall(since) ==
  /\ fcPc = "idle"
  /\ fcPc' = "request"
  /\ fcSince' = since
  /\ fcPage' = 1
  /\ fcAll' = <<>>
  /\ fcReqs' = <<>>
  /\ fcClock' = 0
  /\ UNCHANGED <<fcServer, fcResp, fcResult, frVars>>

\* the head of the loop: build the request, httpClient.Do.  A server with
\* no response left drops the connection.
DoRequest ==
  /\ fcPc = "request"
  /\ fcReqs' = Append(fcReqs, Query(fcPage, fcSince))
  /\ IF Len(fcReqs) < Len(fcServer)
     THEN /\ fcResp' = [i |-> Len(fcReqs) + 1, r |-> fcServer[Len(fcReqs) + 1]]
          /\ fcPc' = "response"
          /\ UNCHANGED fcResult
     ELSE /\ fcPc' = "returned"
          /\ fcResult' = FailResult(fcAll, Wrap(TransportError))
          /\ UNCHANGED fcResp
  /\ UNCHANGED <<fcServer, fcSince, fcPage, fcAll, fcClock, frVars>>

\* time.Sleep(waitTime) of handleRateLimit is entered: the response is a
\* rate limit whose reset time is ahead
RateLimitSleep ==
  /\ fcPc = "response"
  /\ handleRateLimit(fcResp.r, fcClock) > fcClock
  /\ fcPc' = "sleep"
  /\ UNCHANGED <<fcServer, fcSince, fcPage, fcAll, fcReqs, fcResp, fcClock, fcResult, frVars>>

\* the rest of the iteration, from the response or from the sleep of
\* handleRateLimit: handleRateLimit, the status check, the decoding of the
\* page, the Link header; a break is followed by return allCommits, nil
HandleResponseFrom(pc) ==
  /\ fcPc = pc
  /\ fcClock' = handleRateLimit(fcResp.r, fcClock)
  /\ IF fcResp.r.status # StatusOK
     THEN /\ fcPc' = "returned"
          /\ fcResult' = FailResult(fcAll, StatusError(fcResp.r.status))
          /\ UNCHANGED <<fcAll, fcPage>>
     ELSE IF ~fcResp.r.json
     THEN /\ fcPc' = "returned"
          /\ fcResult' = FailResult(fcAll, Wrap(DecodeError))
          /\ UNCHANGED <<fcAll, fcPage>>
     ELSE IF fcResp.r.n = 0
     THEN /\ fcPc' = "returned"
          /\ fcResult' = [commits |-> fcAll, err |-> Nil]
          /\ UNCHANGED <<fcAll, fcPage>>
     ELSE /\ fcAll' = fcAll \o BodyOf(fcResp.i, fcResp.r)
          /\ IF fcResp.r.link = <<>> \/ ~containsNextPage(fcResp.r.link)
             THEN /\ fcPc' = "returned"
                  /\ fcResult' = [commits |-> fcAll', err |-> Nil]
                  /\ UNCHANGED fcPage
             ELSE /\ fcPc' = "request"
                  /\ fcPage' = fcPage + 1
                  /\ UNCHANGED fcResult
  /\ UNCHANGED <<fcServer, fcSince, fcReqs, fcResp, frVars>>

\* the iteration after httpClient.Do, in one step
HandleResponse == HandleResponseFrom("response")

\* time.Sleep returns at the reset time, whatever became of ctx, and the
\* iteration goes on
RateLimitWake == HandleResponseFrom("sleep")

\* the pointer FetchRepo returns: nil or &repo
NilRepo == "nil"
DecodedRepo == "&repo"

\* FetchRepo against a server with the answers script: httpClient.Do, the
\* status check, the decoding of the body
FetchRepoResult(script) ==
  IF script = <<>> THEN [repo |-> NilRepo, err |-> Wrap(TransportError)]
  ELSE IF script[1].status # StatusOK
  THEN [repo |-> NilRepo, err |-> StatusError(script[1].status)]
  ELSE IF ~script[1].json THEN [repo |-> NilRepo, err |-> Wrap(DecodeError)]
  ELSE [repo |-> DecodedRepo, err |-> Nil]

\* FetchRepo: one request, no loop
FetchRepoCall ==
  /\ frPc = "idle"
  /\ fcPc = "idle"
  /\ frPc' = "returned"
  /\ frReqs' = frReqs + 1
  /\ frResult' = FetchRepoResult(fcServer)
  /\ UNCHANGED <<fcServer, fcPc, fcSince, fcPage, fcAll, fcReqs, fcResp, fcClock, fcResult>>

FetchCommitsStep ==
  \/ \E since \in 0..MaxSince : FetchCommitsCall(since)
  \/ DoRequest
  \/ HandleResponse
  \/ FetchRepoCall

InitClient ==
  /\ fcPc = "idle"
  /\ fcSince = 0
  /\ fcPage = 1
  /\ fcAll = <<>>
  /\ fcReqs = <<>>
  /\ fcResp = [i |-> 0, r |-> Response(StatusOK, "4999", 0, 0, LinkNone, TRUE)]
  /\ fcClock = 0
  /\ fcResult = [commits |-> <<>>, err |-> Nil]
  /\ frPc = "idle"
  /\ frReqs = 0
  /\ frResult = [repo |-> NilRepo, err |-> Nil]

----------------------------------------------------------------------------
(***************************************************************************)
(* RepositoryProcessor.Process: one pass over one repository.  The client  *)
(* is the GitHubClientInterface: FetchCommits answers with the remote      *)
(* repository's commits not older than since, newest first.                *)
(***************************************************************************)

VARIABLES
  remote,     \* per owner, the commit date of each hash of owner/n1, 0 when absent
  prPc,       \* Process: "idle", the call it is about to make, "BatchInsertWait", "returned"
  prOwner,    \* Process: owner
  prName,     \* Process: name
  prSince,    \* Process: since, 0 the zero time
  prRepo,     \* Process: repoModel
  prStored,   \* Process: storedRepo
  prCommits,  \* Process: commitModels
  prResult,   \* Process: the returned error
  prLog,      \* history: the collaborator calls of the running pass, in order
  prCause,    \* history: the call that failed and the error it returned
  prFaulty,   \* history: a collaborator of the running pass was made to fail
  prStart,    \* history: the committed rows when the pass was started
  prRemote,   \* history: the remote commits when the pass fetched them
  prPrev,     \* history: the pass before this one
  prPasses    \* history: passes started so far

prFixed == <<remote, prOwner, prName, prSince, prStart, prPrev, prPasses>>
prVars == <<prFixed, prPc, prRepo, prStored, prCommits, prResult, prLog, prCause, prFaulty,
            prRemote>>

NoRemote == [s \in SHAs |-> 0]
Remotes == [Owners -> [SHAs -> 0..MaxDate]]

OwnerTag(owner) == IF owner = "o1" THEN "t1" ELSE "t2"
ShaRank(sha) == IF sha = "a" THEN 1 ELSE 2

\* the commits of a remote repository, as the API lists them
RemoteCommits(owner, rem) ==
  {[sha |-> s, date |-> rem[s], tag |-> OwnerTag(owner)] : s \in {x \in SHAs : rem[x] > 0}}

RECURSIVE NewestFirst(_)
NewestFirst(S) ==
  IF S = {} THEN <<>>
  ELSE LET x == CHOOSE x \in S : \A y \in S :
                  x.date > y.date \/ (x.date = y.date /\ ShaRank(x.sha) <= ShaRank(y.sha))
       IN <<x>> \o NewestFirst(S \ {x})

\* FetchCommits(ctx, owner, name, since) of the interface
RemoteSince(owner, rem, since) ==
  NewestFirst({c \in RemoteCommits(owner, rem) : c.date >= since})

\* for _, commit := range commits { commitModels = append(...) }
CommitModels(list, repoID) ==
  [i \in 1..Len(list) |-> Commit(list[i].sha, repoID, list[i].date, list[i].tag)]

\* fmt.Errorf("...: %w", err)
WrapErr(err) == [kind |-> err.kind, wrapped |-> TRUE]
ContextCanceled == "context canceled"

Steps == <<"FetchRepo", "StoreRepository", "GetByName", "FetchCommits", "BatchInsert">>

\* a pass that goes on to the next call whatever the error
AfterStepContinue(step, err) ==
  IF step = "FetchRepo" THEN "StoreRepository"
  ELSE IF step = "StoreRepository" THEN "GetByName"
  ELSE IF step = "GetByName" THEN "FetchCommits"
  ELSE "BatchInsert"

\* if err != nil { return fmt.Errorf(...) }; otherwise on to the next call
AfterStep(step, err) ==
  IF err # Nil THEN "returned"
  ELSE IF step = "FetchRepo" THEN "StoreRepository"
  ELSE IF step = "StoreRepository" THEN "GetByName"
  ELSE IF step = "GetByName" THEN "FetchCommits"
  ELSE "BatchInsert"

\* a collaborator was called and returned err
StepDone(step, err) ==
  /\ prLog' = Append(prLog, step)
  /\ prPc' = AfterStep(step, err)
  /\ IF err # Nil
     THEN /\ prResult' = WrapErr(err)
          /\ prCause' = [step |-> step, err |-> err]
     ELSE UNCHANGED <<prResult, prCause>>

NoCause == [step |-> "", err |-> Nil]
NoPass == [ok |-> FALSE, owner |-> "", remote |-> NoRemote]

\* the call, and if ctx.Err() != nil { return ... }
ProcessCall(owner, name, since, cancelled) ==
  /\ prPc = "idle"
  /\ biPc = "idle"
  /\ prPasses < MaxPasses
  /\ prPasses' = prPasses + 1
  /\ prOwner' = owner
  /\ prName' = name
  /\ prSince' = since
  /\ prStart' = commits
  /\ prLog' = <<>>
  /\ prFaulty' = cancelled
  /\ prRemote' = NoRemote
  /\ prRepo' = RepoModel("", "", 0, 0)
  /\ prStored' = RowOf(0, RepoModel("", "", 0, 0))
  /\ prCommits' = <<>>
  /\ IF cancelled
     THEN /\ prPc' = "returned"
          /\ prResult' = WrapErr(Wrap(ContextCanceled))
          /\ prCause' = [step |-> "", err |-> Wrap(ContextCanceled)]
     ELSE /\ prPc' = "FetchRepo"
          /\ prResult' = Nil
          /\ prCause' = NoCause
  /\ UNCHANGED <<remote, prPrev, dbVars, srCall, biVars>>

\* repo, err := p.client.FetchRepo(ctx, owner, name); repoModel := ...
ProcFetchRepo(fails) ==
  /\ prPc = "FetchRepo"
  /\ StepDone("FetchRepo", IF fails THEN StatusError(StatusNotFound) ELSE Nil)
  /\ prRepo' = IF fails THEN prRepo ELSE RepoModel(prOwner, prName, 1, 1)
  /\ prFaulty' = (prFaulty \/ fails)
  /\ UNCHANGED <<prFixed, prStored, prCommits, prRemote, dbVars, srCall, biVars>>

\* p.db.StoreRepository(ctx, repoModel)
ProcStoreRepository(fails) ==
  /\ prPc = "StoreRepository"
  /\ StoreRepository(prRepo, fails)
  /\ StepDone("StoreRepository", srCall'.err)
  /\ prFaulty' = (prFaulty \/ fails)
  /\ UNCHANGED <<prFixed, prRepo, prStored, prCommits, prRemote>>

\* storedRepo, err := p.db.GetByName(ctx, name): one row of the result, whose
\* order the query leaves open
ProcGetByName(fails) ==
  /\ prPc = "GetByName"
  /\ IF fails
     THEN /\ StepDone("GetByName", Wrap(DriverError))
          /\ UNCHANGED prStored
     ELSE IF GetByNameRows(prName) = {}
     THEN /\ StepDone("GetByName", Wrap(ErrRepositoryNotFound))
          /\ UNCHANGED prStored
     ELSE /\ StepDone("GetByName", Nil)
          /\ prStored' \in GetByNameRows(prName)
  /\ prFaulty' = (prFaulty \/ fails)
  /\ UNCHANGED <<prFixed, prRepo, prCommits, prRemote, dbVars, srCall, biVars>>

\* a pass that takes no fetched slice for empty
NoNewCommitsNever(list) == FALSE

\* if len(commits) == 0 { log; return nil }
NoNewCommits(list) == Len(list) = 0

\* commits, err := p.client.FetchCommits(ctx, owner, name, since); the
\* return on an empty slice; the conversion to models
ProcFetchCommits(fails) ==
  /\ prPc = "FetchCommits"
  /\ prFaulty' = (prFaulty \/ fails)
  /\ prLog' = Append(prLog, "FetchCommits")
  /\ IF fails
     THEN /\ prPc' = "returned"
          /\ prResult' = WrapErr(Wrap(TransportError))
          /\ prCause' = [step |-> "FetchCommits", err |-> Wrap(TransportError)]
          /\ UNCHANGED <<prCommits, prRemote>>
     ELSE /\ prRemote' = remote[prOwner]
          /\ prCommits' = CommitModels(RemoteSince(prOwner, remote[prOwner], prSince),
                                       prStored.id)
          /\ prPc' = IF NoNewCommits(prCommits') THEN "returned"
                     ELSE AfterStep("FetchCommits", Nil)
          /\ UNCHANGED <<prResult, prCause>>
  /\ UNCHANGED <<prFixed, prRepo, prStored, dbVars, srCall, biVars>>

\* p.db.BatchInsert(ctx, commitModels): the call is made
ProcBatchInsert(fault) ==
  /\ prPc = "BatchInsert"
  /\ BatchInsertCall(prCommits, fault)
  /\ prLog' = Append(prLog, "BatchInsert")
  /\ prPc' = "BatchInsertWait"
  /\ prFaulty' = (prFaulty \/ fault # "none")
  /\ UNCHANGED <<prFixed, prRepo, prStored, prCommits, prResult, prCause, prRemote>>

\* a step of the running BatchInsert
ProcBatchInsertRun ==
  /\ prPc = "BatchInsertWait"
  /\ \/ /\ \E k \in DOMAIN biWorker : WorkerAcquire(k) \/ WorkerRelease(k)
        /\ UNCHANGED prFaulty
     \/ \E k \in DOMAIN biWorker, f \in BOOLEAN :
          WorkerExec(k, f) /\ prFaulty' = (prFaulty \/ f)
     \/ \E cf \in BOOLEAN :
          BatchInsertReturn(cf) /\ prFaulty' = (prFaulty \/ cf)
  /\ UNCHANGED <<prFixed, prPc, prRepo, prStored, prCommits, prResult, prLog, prCause, prRemote>>

\* BatchInsert returned: if err != nil { return fmt.Errorf(...) }; return nil
ProcReturn ==
  /\ prPc = "BatchInsertWait"
  /\ biPc = "returned"
  /\ prPc' = "returned"
  /\ IF biResult # Nil
     THEN /\ prResult' = WrapErr(biResult)
          /\ prCause' = [step |-> "BatchInsert", err |-> biResult]
     ELSE UNCHANGED <<prResult, prCause>>
  /\ UNCHANGED <<prFixed, prRepo, prStored, prCommits, prLog, prFaulty, prRemote,
                 dbVars, srCall, biVars>>

\* the caller takes the result; the next pass may start
ProcessDone ==
  /\ prPc = "returned"
  /\ prPc' = "idle"
  /\ prPrev' = [ok |-> prResult = Nil, owner |-> prOwner, remote |-> prRemote]
  /\ IF biPc = "returned" THEN BatchInsertDone ELSE UNCHANGED <<dbVars, srCall, biVars>>
  /\ UNCHANGED <<remote, prOwner, prName, prSince, prStart, prPasses, prRepo, prStored,
                 prCommits, prResult, prLog, prCause, prFaulty, prRemote>>

\* the remote repository gets a commit, or a commit of it another date
RemotePush(owner, sha, date) ==
  /\ prPc = "idle"
  /\ 0 < prPasses /\ prPasses < MaxPasses
  /\ remote[owner][sha] # date
  /\ remote' = [remote EXCEPT ![owner][sha] = date]
  /\ UNCHANGED <<prOwner, prName, prSince, prStart, prPrev, prPasses, prPc, prRepo, prStored,
                 prCommits, prResult, prLog, prCause, prFaulty, prRemote,
                 dbVars, srCall, biVars>>

ProcessStep ==
  \/ \E o \in Owners, since \in 0..MaxDate, cancelled \in BOOLEAN :
       ProcessCall(o, "n1", since, cancelled)
  \/ \E f \in BOOLEAN : ProcFetchRepo(f)
  \/ \E f \in BOOLEAN : ProcStoreRepository(f)
  \/ \E f \in BOOLEAN : ProcGetByName(f)
  \/ \E f \in BOOLEAN : ProcFetchCommits(f)
  \/ \E fault \in {"none", "begin", "prepare"} : ProcBatchInsert(fault)
  \/ ProcBatchInsertRun
  \/ ProcReturn
  \/ ProcessDone
  \/ \E o \in Owners, sha \in SHAs, d \in Dates : RemotePush(o, sha, d)

InitProcess ==
  /\ prPc = "idle"
  /\ prOwner = ""
  /\ prName = ""
  /\ prSince = 0
  /\ prRepo = RepoModel("", "", 0, 0)
  /\ prStored = RowOf(0, RepoModel("", "", 0, 0))
  /\ prCommits = <<>>
  /\ prResult = Nil
  /\ prLog = <<>>
  /\ prCause = NoCause
  /\ prFaulty = FALSE
  /\ prStart = {}
  /\ prRemote = NoRemote
  /\ prPrev = NoPass
  /\ prPasses = 0

----------------------------------------------------------------------------
(***************************************************************************)
(* checkRepositories: one tick of MonitorRepositoryChanges, one goroutine  *)
(* per repository row.  The callback is the function the caller passed;    *)
(* here it returns nil or an error and leaves the tables alone.            *)
(***************************************************************************)

VARIABLES
  tkPc,       \* checkRepositories: "idle", "workers", "returned"
  tkRepos,    \* checkRepositories: repos
  tkWorker,   \* per row of repos, the goroutine's place and its latestDate
  tkSem,      \* slots of sem in use
  tkErrChan,  \* errors sent to errChan
  tkResult,   \* the returned error
  tkLookup,   \* history: per row, how GetLatestDate ended: "none", "ok", "err", "skip"
  tkCalled,   \* history: per row, how the callback ended: "none", "ok", "err"
  tkPeak      \* history: the most slots of sem in use at once in the last tick

tkVars == <<tkPc, tkRepos, tkWorker, tkSem, tkErrChan, tkResult, tkLookup, tkCalled, tkPeak>>

\* the rows of SELECT * FROM repositories, by id
RowsById(tbl) ==
  [i \in 1..Cardinality(tbl) |->
     CHOOSE r \in tbl : Cardinality({q \in tbl : q.id < r.id}) = i - 1]

CallbackError == "callback error"

\* the tick ends as soon as one goroutine is done
WaitOverFirstDone(workers) ==
  \E i \in DOMAIN workers : workers[i].pc = "done"

\* wg.Wait()
WaitOver(workers) ==
  \A i \in DOMAIN workers : workers[i].pc = "done"

\* SelectContext; the loop that starts the goroutines
CheckRepositoriesCall(fails) ==
  /\ tkPc = "idle"
  /\ tkSem' = 0
  /\ tkPeak' = 0
  /\ tkErrChan' = <<>>
  /\ IF fails
     THEN /\ tkPc' = "returned"
          /\ tkResult' = Wrap(DriverError)
          /\ tkRepos' = <<>>
     ELSE /\ tkPc' = "workers"
          /\ tkResult' = Nil
          /\ tkRepos' = RowsById(repositories)
  /\ tkWorker' = [i \in DOMAIN tkRepos' |-> [pc |-> "acquire", date |-> 0]]
  /\ tkLookup' = [i \in DOMAIN tkRepos' |-> "none"]
  /\ tkCalled' = [i \in DOMAIN tkRepos' |-> "none"]

\* sem <- struct{}{}
TickAcquire(i) ==
  /\ tkPc = "workers"
  /\ tkWorker[i].pc = "acquire"
  /\ ~SemFull(tkSem)
  /\ tkSem' = tkSem + 1
  /\ tkPeak' = IF tkSem' > tkPeak THEN tkSem' ELSE tkPeak
  /\ tkWorker' = [tkWorker EXCEPT ![i].pc = "lookup"]
  /\ UNCHANGED <<tkPc, tkRepos, tkErrChan, tkResult, tkLookup, tkCalled>>

\* latestDate, err := db.GetLatestDate(ctx, repo.Name) and the branch on err
TickLookup(i, fails) ==
  /\ tkPc = "workers"
  /\ tkWorker[i].pc = "lookup"
  /\ LET res == IF fails THEN [date |-> 0, err |-> Wrap(DriverError)]
                ELSE GetLatestDate(tkRepos[i].name)
     IN IF res.err # Nil
        THEN IF ErrorEq(res.err, ErrNoCommitsFound)
             THEN /\ tkLookup' = [tkLookup EXCEPT ![i] = "skip"]
                  /\ tkWorker' = [tkWorker EXCEPT ![i].pc = "release"]
                  /\ UNCHANGED tkErrChan
             ELSE /\ tkLookup' = [tkLookup EXCEPT ![i] = "err"]
                  /\ tkErrChan' = IF SendBlocks(tkErrChan, Len(tkRepos)) THEN tkErrChan
                                  ELSE Append(tkErrChan, [i |-> i, err |-> WrapErr(res.err)])
                  /\ tkWorker' = [tkWorker EXCEPT ![i].pc =
                                    IF SendBlocks(tkErrChan, Len(tkRepos)) THEN "send"
                                    ELSE "release"]
        ELSE /\ tkLookup' = [tkLookup EXCEPT ![i] = "ok"]
             /\ tkWorker' = [tkWorker EXCEPT ![i] = [pc |-> "callback", date |-> res.date]]
             /\ UNCHANGED tkErrChan
  /\ UNCHANGED <<tkPc, tkRepos, tkSem, tkResult, tkCalled, tkPeak>>

\* if err := callback(repo.Name, latestDate); err != nil { errChan <- ... }
TickCallback(i, fails) ==
  /\ tkPc = "workers"
  /\ tkWorker[i].pc = "callback"
  /\ tkCalled' = [tkCalled EXCEPT ![i] = IF fails THEN "err" ELSE "ok"]
  /\ tkErrChan' = IF fails /\ ~SendBlocks(tkErrChan, Len(tkRepos))
                  THEN Append(tkErrChan, [i |-> i, err |-> WrapErr(Wrap(CallbackError))])
                  ELSE tkErrChan
  /\ tkWorker' = [tkWorker EXCEPT ![i].pc =
                    IF fails /\ SendBlocks(tkErrChan, Len(tkRepos)) THEN "send"
                    ELSE "release"]
  /\ UNCHANGED <<tkPc, tkRepos, tkSem, tkResult, tkLookup, tkPeak>>

\* defer func() { <-sem }(); defer wg.Done()
TickRelease(i) ==
  /\ tkPc = "workers"
  /\ tkWorker[i].pc = "release"
  /\ tkSem' = tkSem - 1
  /\ tkWorker' = [tkWorker EXCEPT ![i].pc = "done"]
  /\ UNCHANGED <<tkPc, tkRepos, tkErrChan, tkResult, tkLookup, tkCalled, tkPeak>>

\* fmt.Errorf("errors occurred while processing repositories: %v", errs)
TickErrors == [kind |-> "errors occurred while processing repositories", wrapped |-> FALSE]

\* wg.Wait(); close(errChan); collect; return
TickReturn ==
  /\ tkPc = "workers"
  /\ WaitOver(tkWorker)
  /\ tkPc' = "returned"
  /\ tkResult' = IF Len(tkErrChan) > 0 THEN TickErrors ELSE Nil
  /\ UNCHANGED <<tkRepos, tkWorker, tkSem, tkErrChan, tkLookup, tkCalled, tkPeak>>

\* MonitorRepositoryChanges logs the error and waits for the next tick
TickDone ==
  /\ tkPc = "returned"
  /\ tkPc' = "idle"
  /\ tkRepos' = <<>>
  /\ tkWorker' = <<>>
  /\ tkErrChan' = <<>>
  /\ tkResult' = Nil
  /\ tkLookup' = <<>>
  /\ tkCalled' = <<>>
  /\ UNCHANGED <<tkSem, tkPeak>>

TickStep ==
  \/ \E f \in BOOLEAN : CheckRepositoriesCall(f)
  \/ \E i \in DOMAIN tkWorker : TickAcquire(i)
  \/ \E i \in DOMAIN tkWorker, f \in BOOLEAN : TickLookup(i, f)
  \/ \E i \in DOMAIN tkWorker, f \in BOOLEAN : TickCallback(i, f)
  \/ \E i \in DOMAIN tkWorker : TickRelease(i)
  \/ TickReturn
  \/ TickDone

InitTick ==
  /\ tkPc = "idle"
  /\ tkRepos = <<>>
  /\ tkWorker = <<>>
  /\ tkSem = 0
  /\ tkErrChan = <<>>
  /\ tkResult = Nil
  /\ tkLookup = <<>>
  /\ tkCalled = <<>>
  /\ tkPeak = 0

\* the tables a tick finds: the first n of three repositories, stored in
\* this order, and for each hash no record or one of a stored repository
TickRows ==
  <<RowOf(1, RepoModel("o1", "n1", 1, 1)), RowOf(2, RepoModel("o2", "n1", 1, 1)),
    RowOf(3, RepoModel("o1", "n2", 1, 1)), RowOf(4, RepoModel("o2", "n2", 1, 1))>>

TickTables ==
  {[repositories |-> {TickRows[i] : i \in 1..n},
    commits |-> {Commit(s, f[s][1], f[s][2], TagOf(f[s][1])) : s \in {x \in SHAs : f[x][1] > 0}}] :
     n \in 0..MaxTickRepos, f \in [SHAs -> (0..MaxTickRepos) \X Dates]}

----------------------------------------------------------------------------
(***************************************************************************)
(* MonitorRepositoryChanges: the goroutine that selects between ctx.Done() *)
(* and the ticker's channel and runs checkRepositories on every tick.      *)
(***************************************************************************)

VARIABLES
  mlPc,       \* the goroutine: "idle" (at the select), "ticking", "stopped" (returned)
  ctxDone,    \* ctx has been cancelled
  tickerC,    \* ticks waiting in ticker.C, a channel of capacity 1
  mlFailed    \* history: the last tick that ended returned an error

mlVars == <<mlPc, ctxDone, tickerC, mlFailed>>

\* a loop whose select has no case for ctx.Done()
DoneNeverReady(done) == FALSE

\* case <-ctx.Done(): ready once the context is cancelled
DoneReady(done) == done

\* a loop that returns when a tick returned an error
AfterTickStopOnError(err) == IF err # Nil THEN "stopped" ELSE "idle"

\* if err := db.checkRepositories(...); err != nil { log.Printf(...) }, then
\* the next iteration of the for loop
AfterTick(err) == "idle"

\* the runtime sends a tick; it is dropped when one is already waiting
TickerFire ==
  /\ mlPc # "stopped"
  /\ tickerC = 0
  /\ tickerC' = 1
  /\ UNCHANGED <<mlPc, ctxDone, mlFailed, tkVars>>

\* s.cancel(), by waitForShutdown or Close
Cancel ==
  /\ ~ctxDone
  /\ ctxDone' = TRUE
  /\ UNCHANGED <<mlPc, tickerC, mlFailed, tkVars>>

\* case <-ctx.Done(): return; the deferred ticker.Stop()
LoopStop ==
  /\ mlPc = "idle"
  /\ DoneReady(ctxDone)
  /\ mlPc' = "stopped"
  /\ UNCHANGED <<ctxDone, tickerC, mlFailed, tkVars>>

\* case <-ticker.C: the call of checkRepositories, whose SelectContext
\* fails on a cancelled context
LoopTick(fails) ==
  /\ mlPc = "idle"
  /\ tickerC = 1
  /\ tickerC' = 0
  /\ mlPc' = "ticking"
  /\ CheckRepositoriesCall(fails \/ ctxDone)
  /\ UNCHANGED <<ctxDone, mlFailed>>

\* the goroutines of the running tick; GetLatestDate fails on a cancelled
\* context
LoopTickRun ==
  /\ mlPc = "ticking"
  /\ \/ \E i \in DOMAIN tkWorker : TickAcquire(i)
     \/ \E i \in DOMAIN tkWorker, f \in BOOLEAN : TickLookup(i, f \/ ctxDone)
     \/ \E i \in DOMAIN tkWorker, f \in BOOLEAN : TickCallback(i, f)
     \/ \E i \in DOMAIN tkWorker : TickRelease(i)
     \/ TickReturn
  /\ UNCHANGED mlVars

\* checkRepositories returned: its error is logged and the loop goes on
LoopAfterTick ==
  /\ mlPc = "ticking"
  /\ TickDone
  /\ mlFailed' = (tkResult # Nil)
  /\ mlPc' = AfterTick(tkResult)
  /\ UNCHANGED <<ctxDone, tickerC>>

LoopStep ==
  \/ TickerFire
  \/ Cancel
  \/ LoopStop
  \/ \E f \in BOOLEAN : LoopTick(f)
  \/ LoopTickRun
  \/ LoopAfterTick

InitLoop ==
  /\ mlPc = "idle"
  /\ ctxDone = FALSE
  /\ tickerC = 0
  /\ mlFailed = FALSE

\* the tables the loop runs over: those of TickTables with few repositories
\* and no commit or one, so that a lookup finds a date or finds none
LoopTables ==
  {t \in TickTables : Cardinality(t.repositories) <= MaxLoopRepos /\ Cardinality(t.commits) <= 1}

----------------------------------------------------------------------------
(***************************************************************************)
(* Service: ResetSyncPoint, which the reset-sync command calls, and the    *)
(* callback the service hands to MonitorRepositoryChanges.  Each of them   *)
(* runs one pass of Process.                                               *)
(***************************************************************************)

VARIABLES
  svKind,     \* history: what started the running pass: "reset" or "monitor"
  svPrev,     \* history: what started the pass before this one, and its since
  svResult,   \* ResetSyncPoint: the returned error, until the caller took it
  svCall,     \* history: the arguments of the last call of ResetSyncPoint, until
              \* its pass returned
  svRepo      \* history: owner and name of the row the tick called the callback
              \* for, until its pass returned

svVars == <<svKind, svPrev, svResult, svCall, svRepo>>

\* s.config.RepoOwner of the running service
RepoOwner == "o1"

NoService == [kind |-> "", since |-> 0]
NoReset == [name |-> "", date |-> 0]
NoEntity == [owner |-> "", name |-> ""]

\* a callback that goes on from the date of the reset before it
CursorFromReset(latestDate, prev) ==
  IF prev.kind = "reset" THEN prev.since ELSE latestDate

\* func(repoName string, latestDate time.Time) error: the date it hands to
\* Process is the one the tick looked up
CallbackCursor(latestDate, prev) == latestDate

\* a reset that goes on from the latest stored date of the name
ResetArgsLatest(repo, newDate) ==
  [owner |-> repo.owner, name |-> repo.name, since |-> GetLatestDate(repo.name).date]

\* s.processor.Process(ctx, repo.Owner, repo.Name, newDate)
ResetArgs(repo, newDate) ==
  [owner |-> repo.owner, name |-> repo.name, since |-> newDate]

\* ResetSyncPoint(ctx, repoName, newDate): the name check, GetByName, and
\* the call of Process with the owner of the row found
ResetSyncPoint(repoName, newDate, fails) ==
  /\ prPc = "idle"
  /\ biPc = "idle"
  /\ prPasses < MaxPasses
  /\ svCall' = [name |-> repoName, date |-> newDate]
  /\ IF repoName = ""
     THEN /\ svResult' = [kind |-> "repository name cannot be empty", wrapped |-> FALSE]
          /\ UNCHANGED <<svKind, svPrev, svRepo, prVars, dbVars, srCall, biVars>>
     ELSE IF fails \/ GetByNameRows(repoName) = {}
     THEN /\ svResult' = WrapErr(IF fails THEN Wrap(DriverError)
                                 ELSE Wrap(ErrRepositoryNotFound))
          /\ UNCHANGED <<svKind, svPrev, svRepo, prVars, dbVars, srCall, biVars>>
     ELSE /\ \E repo \in GetByNameRows(repoName) :
               LET args == ResetArgs(repo, newDate)
               IN ProcessCall(args.owner, args.name, args.since, FALSE)
          /\ svKind' = "reset"
          /\ svResult' = Nil
          /\ UNCHANGED <<svPrev, svRepo>>

\* Process returned to ResetSyncPoint: if err != nil { return fmt.Errorf(...) }
ResetReturn ==
  /\ svKind = "reset"
  /\ ProcessDone
  /\ svResult' = IF prResult # Nil THEN WrapErr(prResult) ELSE Nil
  /\ svPrev' = [kind |-> svKind, since |-> prSince]
  /\ svKind' = ""
  /\ svCall' = NoReset
  /\ UNCHANGED svRepo

\* a tick found latestDate for the row repo and calls the callback:
\* if s.ctx.Err() != nil { return ... }; return s.processor.Process(...)
MonitorCallback(repo, cancelled) ==
  /\ repo \in repositories
  /\ GetLatestDate(repo.name).err = Nil
  /\ ProcessCall(RepoOwner, repo.name,
                 CallbackCursor(GetLatestDate(repo.name).date, svPrev), cancelled)
  /\ svKind' = "monitor"
  /\ svResult' = Nil
  /\ svCall' = NoReset
  /\ svRepo' = [owner |-> repo.owner, name |-> repo.name]
  /\ UNCHANGED svPrev

\* Process returned to the callback, and the callback to the tick
MonitorReturn ==
  /\ svKind = "monitor"
  /\ ProcessDone
  /\ svPrev' = [kind |-> svKind, since |-> prSince]
  /\ svKind' = ""
  /\ svRepo' = NoEntity
  /\ UNCHANGED <<svResult, svCall>>

\* the steps of a running pass
ProcessRun ==
  \/ \E f \in BOOLEAN : ProcFetchRepo(f)
  \/ \E f \in BOOLEAN : ProcStoreRepository(f)
  \/ \E f \in BOOLEAN : ProcGetByName(f)
  \/ \E f \in BOOLEAN : ProcFetchCommits(f)
  \/ \E fault \in {"none", "begin", "prepare"} : ProcBatchInsert(fault)
  \/ ProcBatchInsertRun
  \/ ProcReturn

ServiceStep ==
  \/ \E n \in Names \cup {""}, d \in 0..MaxDate, f \in BOOLEAN : ResetSyncPoint(n, d, f)
  \/ ResetReturn
  \/ \E repo \in repositories, cancelled \in BOOLEAN : MonitorCallback(repo, cancelled)
  \/ MonitorReturn
  \/ ProcessRun /\ UNCHANGED svVars

InitService ==
  /\ svKind = ""
  /\ svPrev = NoService
  /\ svResult = Nil
  /\ svCall = NoReset
  /\ svRepo = NoEntity

----------------------------------------------------------------------------
NoCall == [repo |-> RepoModel("", "", 0, 0), err |-> Nil, io |-> 0]
NoRead == [op |-> "", name |-> "", err |-> Nil, io |-> 0]

\* GetByName called directly: the input check, then the query
GetByNameCall(name, fails) ==
  /\ rdCall' = [op |-> "GetByName", name |-> name,
                err |-> IF name = "" THEN Wrap(ErrInvalidInput)
                        ELSE IF fails THEN Wrap(DriverError)
                        ELSE IF GetByNameRows(name) = {} THEN Wrap(ErrRepositoryNotFound)
                        ELSE Nil,
                io |-> IF name = "" THEN 0 ELSE 1]
  /\ UNCHANGED <<dbVars, srCall, biVars>>

\* GetLatestDate called directly: the input check, then the query
GetLatestDateCall(name, fails) ==
  /\ rdCall' = [op |-> "GetLatestDate", name |-> name,
                err |-> IF name # "" /\ fails THEN Wrap(DriverError)
                        ELSE GetLatestDate(name).err,
                io |-> IF name = "" THEN 0 ELSE 1]
  /\ UNCHANGED <<dbVars, srCall, biVars>>

InitDB ==
  /\ repositories = {}
  /\ nextRepoId = 1
  /\ commits = {}
  /\ srCall = NoCall
  /\ rdCall = NoRead

InitBI ==
  /\ biPc = "idle"
  /\ biLen = 0
  /\ biRows = {}
  /\ biWorker = <<>>
  /\ biSem = 0
  /\ biErrChan = <<>>
  /\ biResult = Nil
  /\ biOk = 0
  /\ biPre = {}
  /\ biAll = {}
  /\ biCalls = 0
  /\ biStale = FALSE
  /\ biWrote = FALSE
  /\ biIO = {}

----------------------------------------------------------------------------
(***************************************************************************)
(* Two invocations of BatchInsert at the same time, each in its own        *)
(* transaction (BeginTx(ctx, nil): READ COMMITTED).  A statement sees the  *)
(* committed rows and the rows of its own transaction; INSERT ... ON        *)
(* CONFLICT DO UPDATE on a hash another open transaction has written waits *)
(* for that transaction to end and then works on the committed row.  The   *)
(* lists are of one chunk, so each invocation has one worker.              *)
(***************************************************************************)

VARIABLES
  cwTx,       \* per invocation: pc, the list, the records left, the rows
              \* written, the hashes locked, an error was collected, and
              \* (history) it began while the other one was open
  cwLog,      \* history: hash and date of the records of committed invocations
  cwPre       \* history: the records stored before the first invocation

cwVars == <<cwTx, cwLog, cwPre>>

Writers == {1, 2}

NoWriter ==
  [pc |-> "idle", list |-> <<>>, todo |-> <<>>, rows |-> {}, locked |-> {},
   err |-> FALSE, conc |-> FALSE]

\* what a statement of invocation t sees
WriterView(t) ==
  {r \in commits : ~\E w \in cwTx[t].rows : CommitConflicts(w, r)} \cup cwTx[t].rows

\* statements that never wait for another transaction
RowLockedNever(t, sha) == FALSE

\* the row of the hash is written or locked by the other open transaction
RowLocked(t, sha) ==
  \E u \in Writers \ {t} : cwTx[u].pc = "open" /\ sha \in cwTx[u].locked

\* invocation t waits for a row
Waiting(t) ==
  /\ cwTx[t].pc = "open" /\ cwTx[t].todo # <<>>
  /\ RowLocked(t, Head(cwTx[t].todo).sha)

\* BatchInsert(ctx, list): BeginTx, PrepareContext, the worker started
WriterBegin(t, list) ==
  /\ cwTx[t].pc = "idle"
  /\ cwTx' = [cwTx EXCEPT ![t] =
                [NoWriter EXCEPT !.pc = "open", !.list = list, !.todo = list,
                                 !.conc = \E u \in Writers : cwTx[u].pc = "open"]]
  /\ cwPre' = IF \A u \in Writers : cwTx[u].pc = "idle" THEN commits ELSE cwPre
  /\ UNCHANGED <<dbVars, cwLog>>

\* stmt.ExecContext for the next record of the chunk; on an error the
\* worker sends it and returns
WriterExec(t, fails) ==
  /\ cwTx[t].pc = "open" /\ cwTx[t].todo # <<>>
  /\ LET c == Head(cwTx[t].todo)
     IN /\ ~RowLocked(t, c.sha)
        /\ cwTx' = [cwTx EXCEPT ![t] =
             IF fails \/ ~ForeignKeyOk(WriterView(t), c)
             THEN [@ EXCEPT !.err = TRUE, !.todo = <<>>]
             ELSE [@ EXCEPT !.rows = {r \in UpsertCommit(WriterView(t), c) : r \notin commits},
                            !.locked = @ \cup {c.sha},
                            !.todo = Tail(@)]]
  /\ UNCHANGED <<dbVars, cwLog, cwPre>>

\* each invocation waits for a row of the other: the database ends the
\* statement of one of them with an error
WriterDeadlock(t) ==
  /\ Waiting(t)
  /\ \A u \in Writers \ {t} : Waiting(u)
  /\ cwTx' = [cwTx EXCEPT ![t] = [@ EXCEPT !.err = TRUE, !.todo = <<>>]]
  /\ UNCHANGED <<dbVars, cwLog, cwPre>>

\* wg.Wait(); with an error collected the deferred tx.Rollback(), else
\* tx.Commit(), which may fail
WriterReturn(t, commitFails) ==
  /\ cwTx[t].pc = "open" /\ cwTx[t].todo = <<>>
  /\ IF cwTx[t].err \/ commitFails
     THEN UNCHANGED <<commits, cwLog>>
     ELSE /\ commits' = WriterView(t)
          /\ cwLog' = cwLog \cup {[sha |-> cwTx[t].list[i].sha, date |-> cwTx[t].list[i].date] :
                                    i \in DOMAIN cwTx[t].list}
  /\ cwTx' = [cwTx EXCEPT ![t] = [@ EXCEPT !.pc = "done", !.rows = {}, !.locked = {}]]
  /\ UNCHANGED <<repositories, nextRepoId, cwPre>>

InitWriters ==
  /\ cwTx = [t \in Writers |-> NoWriter]
  /\ cwLog = {}
  /\ cwPre = {}

----------------------------------------------------------------------------
(***************************************************************************)
(* Config.Load, and the interval startMonitoring hands to the ticker of    *)
(* MonitorRepositoryChanges.  The environment holds texts.                 *)
(***************************************************************************)

VARIABLES
  cfEnv,      \* the environment: a text for each name, "" when unset
  cfPc,       \* "new", "loaded" (Load returned nil), "failed" (Load returned an
              \* error), "monitoring" (the ticker runs), "panic" (NewTicker panicked)
  cfConfig    \* the fields of Config

cfVars == <<cfEnv, cfPc, cfConfig>>

\* time.Second, with the millisecond as the unit
Second == 1000

\* time.Date(2024, 1, 1, 0, 0, 0, 0, time.UTC), as a day number
DefaultStartDate == 1

NoConfig ==
  [GitHubToken |-> "", RepoOwner |-> "", RepoName |-> "", PollInterval |-> 0, StartDate |-> 0]

\* the texts of POLL_INTERVAL
PollTexts == {"", "abc", "0", "1", "-1", "60", "-60", "3600"}

\* the texts of START_DATE; the day each text in RFC3339 form names
StartTexts == {"", "2024-03-01T00:00:00Z", "2024-03-01"}

\* viper.GetInt: the number the text spells, 0 for a text that spells none
GetInt(text) ==
  CASE text = "1" -> 1
    [] text = "-1" -> 0 - 1
    [] text = "60" -> 60
    [] text = "-60" -> 0 - 60
    [] text = "3600" -> 3600
    [] OTHER -> 0

\* time.Parse(time.RFC3339, text)
ParseRFC3339(text) ==
  IF text = "2024-03-01T00:00:00Z" THEN [ok |-> TRUE, day |-> 61]
  ELSE [ok |-> FALSE, day |-> 0]

\* if c.PollInterval == 0 { c.PollInterval = 3600 }
PollIntervalOrDefault(n) == IF n = 0 THEN 3600 ELSE n

\* Load: the fields in the order they are set, until the first error
Load(env) ==
  LET c1 == [NoConfig EXCEPT !.GitHubToken = env.GITHUB_TOKEN]
      c2 == [c1 EXCEPT !.RepoOwner = env.REPO_OWNER]
      c3 == [c2 EXCEPT !.RepoName = env.REPO_NAME]
      c4 == [c3 EXCEPT !.PollInterval = PollIntervalOrDefault(GetInt(env.POLL_INTERVAL))]
      parsed == ParseRFC3339(env.START_DATE)
  IN IF c1.GitHubToken = "" THEN [config |-> c1, err |-> "GITHUB_TOKEN is required"]
     ELSE IF c2.RepoOwner = "" THEN [config |-> c2, err |-> "REPO_OWNER is required"]
     ELSE IF c3.RepoName = "" THEN [config |-> c3, err |-> "REPO_NAME is required"]
     ELSE IF env.START_DATE = ""
     THEN [config |-> [c4 EXCEPT !.StartDate = DefaultStartDate], err |-> ""]
     ELSE IF parsed.ok
     THEN [config |-> [c4 EXCEPT !.StartDate = parsed.day], err |-> ""]
     ELSE [config |-> c4, err |-> "invalid START_DATE format"]

\* time.Duration(s.config.PollInterval) * time.Second
TickerInterval(config) == config.PollInterval * Second

ConfigLoad ==
  /\ cfPc = "new"
  /\ cfConfig' = Load(cfEnv).config
  /\ cfPc' = IF Load(cfEnv).err = "" THEN "loaded" ELSE "failed"
  /\ UNCHANGED cfEnv

\* startMonitoring: time.NewTicker(interval) panics on an interval that is
\* not positive
StartMonitoring ==
  /\ cfPc = "loaded"
  /\ cfPc' = IF TickerInterval(cfConfig) <= 0 THEN "panic" ELSE "monitoring"
  /\ UNCHANGED <<cfEnv, cfConfig>>

\* the process is started again with another environment
Restart(env) ==
  /\ cfPc \in {"failed", "monitoring", "panic"}
  /\ cfEnv' = env
  /\ cfPc' = "new"
  /\ cfConfig' = NoConfig

NoEnv ==
  [GITHUB_TOKEN |-> "", REPO_OWNER |-> "", REPO_NAME |-> "", POLL_INTERVAL |-> "",
   START_DATE |-> ""]

Envs ==
  [GITHUB_TOKEN : {"", "token"}, REPO_OWNER : {"", "o1"}, REPO_NAME : {"", "n1"},
   POLL_INTERVAL : PollTexts, START_DATE : StartTexts]

InitConfig ==
  /\ cfEnv = NoEnv
  /\ cfPc = "new"
  /\ cfConfig = NoConfig

vars == <<dbVars, srCall, rdCall, biVars, fcVars, prVars, tkVars, mlVars, svVars, cwVars, cfVars>>

\* nothing is running; no scripted server, empty remote repositories
InitIdle ==
  /\ InitBI /\ InitClient /\ InitProcess /\ InitTick /\ InitLoop /\ InitService /\ InitWriters /\ InitConfig
  /\ fcServer = <<>>
  /\ remote = [o \in Owners |-> NoRemote]

Init == InitDB /\ InitIdle

BatchInsertStep ==
  \/ \E list \in CommitLists, fault \in {"none", "begin", "prepare"} :
       BatchInsertCall(list, fault)
  \/ \E k \in DOMAIN biWorker : WorkerAcquire(k)
  \/ \E k \in DOMAIN biWorker, f \in BOOLEAN : WorkerExec(k, f)
  \/ \E k \in DOMAIN biWorker : WorkerRelease(k)
  \/ \E cf \in BOOLEAN : BatchInsertReturn(cf)
  \/ BatchInsertDone

\* the storage layer used directly: repositories of one snapshot, and lists
StoreStep ==
  \E o \in Owners, n \in {"n1"}, f \in BOOLEAN : StoreRepository(RepoModel(o, n, 1, 1), f)

Next == (StoreStep \/ BatchInsertStep) /\ UNCHANGED <<rdCall, fcVars, prVars, tkVars, mlVars, svVars, cwVars, cfVars>>

Spec == Init /\ [][Next]_vars

\* the storage layer alone: every snapshot of every identity
StoreAnyStep ==
  \E o \in Owners, n \in Names, v \in 1..MaxSnapshot, c \in 1..MaxSnapshot, f \in BOOLEAN :
    StoreRepository(RepoModel(o, n, v, c), f)

SpecRepo == Init /\ [][StoreAnyStep /\ UNCHANGED <<rdCall, fcVars, prVars, tkVars, mlVars, svVars, cwVars, cfVars>>]_vars

\* the calls that check their identity argument: StoreRepository of one
\* snapshot of every identity, the empty owner and the empty name among
\* them, and the two reads by name
StoreInputStep ==
  \E o \in Owners \cup {""}, n \in Names \cup {""}, f \in BOOLEAN :
    StoreRepository(RepoModel(o, n, 1, 1), f) /\ UNCHANGED rdCall

ReadStep ==
  \E n \in Names \cup {""}, f \in BOOLEAN : GetByNameCall(n, f) \/ GetLatestDateCall(n, f)

NextInput == (StoreInputStep \/ ReadStep) /\ UNCHANGED <<fcVars, prVars, tkVars, mlVars, svVars, cwVars, cfVars>>

SpecInput == Init /\ [][NextInput]_vars

\* a storage call that goes on as if its context were never cancelled
CtxIgnored(fails, done) == fails

\* a call made with ctx (BeginTx, ExecContext on the transaction's statement,
\* Commit of a transaction begun with ctx, QueryRowContext) fails once ctx is
\* cancelled; before that it fails when the driver fails
CtxFails(fails, done) == fails \/ done

\* the storage layer under a context that is cancelled while a BatchInsert
\* call is between BeginTx and its return
CancelInFlight ==
  /\ biPc = "workers"
  /\ Cancel
  /\ UNCHANGED <<dbVars, srCall, rdCall, biVars, fcVars, prVars, svVars, cwVars, cfVars>>

BatchInsertCtxStep ==
  \/ \E list \in CommitLists, fault \in {"none", "begin", "prepare"} :
       BatchInsertCall(list, IF CtxFails(fault = "begin", ctxDone) THEN "begin" ELSE fault)
  \/ \E k \in DOMAIN biWorker : WorkerAcquire(k)
  \/ \E k \in DOMAIN biWorker, f \in BOOLEAN : WorkerExec(k, CtxFails(f, ctxDone))
  \/ \E k \in DOMAIN biWorker : WorkerRelease(k)
  \/ \E cf \in BOOLEAN : BatchInsertReturn(CtxFails(cf, ctxDone))
  \/ BatchInsertDone

StoreCtxStep ==
  \E o \in Owners, f \in BOOLEAN :
    StoreRepository(RepoModel(o, "n1", 1, 1), CtxFails(f, ctxDone))

NextCancel ==
  \/ (StoreCtxStep \/ BatchInsertCtxStep) /\ UNCHANGED <<rdCall, fcVars, prVars, tkVars, mlVars, svVars, cwVars, cfVars>>
  \/ CancelInFlight

SpecCancel == Init /\ [][NextCancel]_vars

\* more repositories than a tick may process at once and more chunks than
\* BatchInsert may write at once
PoolNames == <<"n1", "n2", "n3", "n4">>
PoolSHAs == <<"s01", "s02", "s03", "s04", "s05", "s06", "s07", "s08", "s09", "s10", "s11",
              "s12">>
PoolRow(i) ==
  RowOf(i, RepoModel(IF i % 2 = 1 THEN "o1" ELSE "o2", PoolNames[(i + 1) \div 2], 1, 1))
PoolList(n) == [i \in 1..n |-> Commit(PoolSHAs[i], 1, 2, TagOf(1))]

\* the stored repositories; those of the first two names have a commit
InitPool ==
  /\ InitIdle
  /\ srCall = NoCall
  /\ rdCall = NoRead
  /\ repositories = {PoolRow(i) : i \in 1..MaxPoolRepos}
  /\ nextRepoId = MaxPoolRepos + 1
  /\ commits = {Commit(PoolSHAs[1], 1, 1, TagOf(1)), Commit(PoolSHAs[2], 3, 1, TagOf(3))}

\* a tick whose calls succeed, or a BatchInsert whose statements succeed
TickPoolStep ==
  \/ CheckRepositoriesCall(FALSE)
  \/ \E i \in DOMAIN tkWorker : TickAcquire(i)
  \/ \E i \in DOMAIN tkWorker : TickLookup(i, FALSE)
  \/ \E i \in DOMAIN tkWorker : TickCallback(i, FALSE)
  \/ \E i \in DOMAIN tkWorker : TickRelease(i)
  \/ TickReturn
  \/ TickDone

BatchInsertPoolStep ==
  \/ BatchInsertCall(PoolList(MaxPoolCommits), "none")
  \/ \E k \in DOMAIN biWorker : WorkerAcquire(k)
  \/ \E k \in DOMAIN biWorker : WorkerExec(k, FALSE)
  \/ \E k \in DOMAIN biWorker : WorkerRelease(k)
  \/ BatchInsertReturn(FALSE)
  \/ BatchInsertDone

NextPool ==
  \/ /\ biPc = "idle"
     /\ TickPoolStep
     /\ UNCHANGED <<dbVars, srCall, rdCall, biVars, fcVars, prVars, mlVars, svVars, cwVars, cfVars>>
  \/ /\ tkPc = "idle"
     /\ BatchInsertPoolStep
     /\ UNCHANGED <<rdCall, fcVars, prVars, tkVars, mlVars, svVars, cwVars, cfVars>>

SpecPool == InitPool /\ [][NextPool]_vars

\* the worker pools with calls that may fail.  The failures are drawn in
\* the order of the workers, so that any number of them fails without the
\* errors arriving in every order: a callback fails only after the errors of
\* earlier rows, a statement only when the earlier chunks are through, and
\* it is the first of its chunk
CallbackFailsInOrder(i) == \A k \in 1..Len(tkErrChan) : tkErrChan[k].i < i

ChunkFailsInOrder(k) ==
  /\ biWorker[k].batch = Batch(PoolList(MaxPoolCommits), k)
  /\ \A j \in DOMAIN biWorker : j < k => biWorker[j].pc \in {"release", "done"}

TickWaitStep ==
  \/ CheckRepositoriesCall(FALSE)
  \/ \E i \in DOMAIN tkWorker : TickAcquire(i)
  \/ \E i \in DOMAIN tkWorker : TickLookup(i, FALSE)
  \/ \E i \in DOMAIN tkWorker, f \in BOOLEAN :
        (f => CallbackFailsInOrder(i)) /\ TickCallback(i, f)
  \/ \E i \in DOMAIN tkWorker : TickRelease(i)
  \/ TickReturn
  \/ TickDone

BatchInsertWaitStep ==
  \/ biCalls = 0 /\ BatchInsertCall(PoolList(MaxPoolCommits), "none")
  \/ \E k \in DOMAIN biWorker : WorkerAcquire(k)
  \/ \E k \in DOMAIN biWorker, f \in BOOLEAN :
        (f => ChunkFailsInOrder(k)) /\ WorkerExec(k, f)
  \/ \E k \in DOMAIN biWorker : WorkerRelease(k)
  \/ \E f \in BOOLEAN : BatchInsertReturn(f)
  \/ BatchInsertDone

\* a behaviour runs the ticks of the loop or one call of BatchInsert
TickWait ==
  /\ biCalls = 0
  /\ TickWaitStep
  /\ UNCHANGED <<dbVars, srCall, rdCall, biVars, fcVars, prVars, mlVars, svVars, cwVars, cfVars>>

BatchInsertWait ==
  /\ tkPc = "idle" /\ tkPeak = 0
  /\ BatchInsertWaitStep
  /\ UNCHANGED <<rdCall, fcVars, prVars, tkVars, mlVars, svVars, cwVars, cfVars>>

NextWait == TickWait \/ BatchInsertWait

\* the goroutines of a pool are scheduled, and the storage call or the
\* callback a worker started returns; wg.Wait() returns once it can
FairWait ==
  /\ WF_tkVars(tkPc = "workers" /\ TickWait)
  /\ WF_biVars(biPc = "workers" /\ BatchInsertWait)

SpecWait == InitPool /\ [][NextWait]_vars /\ FairWait

\* two invocations, one for each of two stored repositories, over lists of
\* one record or two of different hashes
WriterLists(t) ==
  {<<Commit(s, t, d, TagOf(t))>> : s \in SHAs, d \in Dates}
    \cup {<<Commit(p[1], t, d1, TagOf(t)), Commit(p[2], t, d2, TagOf(t))>> :
            p \in {q \in SHAs \X SHAs : q[1] # q[2]}, d1 \in Dates, d2 \in Dates}

WriterTables ==
  {tbl \in SUBSET {Commit(s, 1, d, TagOf(1)) : s \in SHAs, d \in Dates} :
     \A x \in tbl, y \in tbl : x.sha = y.sha => x = y}

InitConcurrent ==
  /\ InitIdle
  /\ srCall = NoCall
  /\ rdCall = NoRead
  /\ repositories = {PoolRow(i) : i \in Writers}
  /\ nextRepoId = Cardinality(Writers) + 1
  /\ commits \in WriterTables

WriterStep ==
  \/ \E t \in Writers : \E list \in WriterLists(t) : WriterBegin(t, list)
  \/ \E t \in Writers, f \in BOOLEAN : WriterExec(t, f)
  \/ \E t \in Writers : WriterDeadlock(t)
  \/ \E t \in Writers, f \in BOOLEAN : WriterReturn(t, f)

NextConcurrent ==
  WriterStep /\ UNCHANGED <<srCall, rdCall, biVars, fcVars, prVars, tkVars, mlVars, svVars,
                            cfVars>>

SpecConcurrent == InitConcurrent /\ [][NextConcurrent]_vars

\* the service started with any environment
ConfigStep ==
  \/ ConfigLoad
  \/ StartMonitoring
  \/ \E env \in Envs : Restart(env)

NextConfig ==
  ConfigStep /\ UNCHANGED <<dbVars, srCall, rdCall, biVars, fcVars, prVars, tkVars, mlVars,
                            svVars, cwVars>>

SpecConfig == Init /\ [][NextConfig]_vars

\* the client alone, against every scripted server
InitFetch ==
  /\ InitDB /\ InitBI /\ InitClient /\ InitProcess /\ InitTick /\ InitLoop /\ InitService /\ InitWriters /\ InitConfig
  /\ fcServer \in Scripts
  /\ remote = [o \in Owners |-> NoRemote]

NextFetch == FetchCommitsStep /\ UNCHANGED <<dbVars, srCall, rdCall, biVars, prVars, tkVars, mlVars, svVars, cwVars, cfVars>>

SpecFetch == InitFetch /\ [][NextFetch]_vars

\* FetchCommits whose context is cancelled while handleRateLimit sleeps;
\* the call is made with a live context
CancelInWait ==
  /\ fcPc = "sleep"
  /\ Cancel
  /\ UNCHANGED <<dbVars, srCall, rdCall, biVars, fcVars, prVars, svVars, cwVars, cfVars>>

FetchWaitStep ==
  \/ \E since \in 0..1 : ~ctxDone /\ FetchCommitsCall(since)
  \/ DoRequest
  \/ RateLimitSleep
  \/ handleRateLimit(fcResp.r, fcClock) = fcClock /\ HandleResponse
  \/ RateLimitWake

NextFetchCancel ==
  \/ FetchWaitStep /\ UNCHANGED <<dbVars, srCall, rdCall, biVars, prVars, tkVars, mlVars, svVars, cwVars, cfVars>>
  \/ CancelInWait

SpecFetchCancel == InitFetch /\ [][NextFetchCancel]_vars

\* passes over the repositories n1 of the owners, against every remote
InitProc ==
  /\ InitDB /\ InitBI /\ InitClient /\ InitProcess /\ InitTick /\ InitLoop /\ InitService /\ InitWriters /\ InitConfig
  /\ fcServer = <<>>
  /\ remote \in Remotes

NextProc == ProcessStep /\ UNCHANGED <<rdCall, fcVars, tkVars, mlVars, svVars, cwVars, cfVars>>

SpecProc == InitProc /\ [][NextProc]_vars

\* passes over the repositories of one owner that hold the same commits
\* under two names, as a repository and its copy do
InitFork ==
  /\ InitDB /\ InitBI /\ InitClient /\ InitProcess /\ InitTick /\ InitLoop /\ InitService /\ InitWriters /\ InitConfig
  /\ fcServer = <<>>
  /\ remote \in {r \in Remotes : r["o2"] = NoRemote}

ForkStep ==
  \/ \E n \in Names, since \in 0..MaxDate : ProcessCall("o1", n, since, FALSE)
  \/ ProcessRun
  \/ ProcessDone

NextFork == ForkStep /\ UNCHANGED <<rdCall, fcVars, tkVars, mlVars, svVars, cwVars, cfVars>>

SpecFork == InitFork /\ [][NextFork]_vars

\* reset-sync and monitoring callbacks over the tables a tick finds, against
\* every remote
InitReset ==
  /\ InitBI /\ InitClient /\ InitProcess /\ InitTick /\ InitLoop /\ InitService /\ InitWriters /\ InitConfig
  /\ fcServer = <<>>
  /\ srCall = NoCall
  /\ rdCall = NoRead
  /\ remote \in Remotes
  /\ \E t \in LoopTables :
       /\ (\A c \in t.commits : \E r \in t.repositories : r.id = c.repository_id)
       /\ repositories = t.repositories
       /\ commits = t.commits
       /\ nextRepoId = Cardinality(t.repositories) + 1

NextReset == ServiceStep /\ UNCHANGED <<rdCall, fcVars, tkVars, mlVars, cwVars, cfVars>>

SpecReset == InitReset /\ [][NextReset]_vars

\* ticks over every table of TickTables
InitMonitor ==
  /\ InitIdle
  /\ srCall = NoCall
  /\ rdCall = NoRead
  /\ \E t \in TickTables :
       /\ (\A c \in t.commits : \E r \in t.repositories : r.id = c.repository_id)
       /\ repositories = t.repositories
       /\ commits = t.commits
       /\ nextRepoId = Cardinality(t.repositories) + 1

NextTick == TickStep /\ UNCHANGED <<dbVars, srCall, rdCall, biVars, fcVars, prVars, mlVars, svVars, cwVars, cfVars>>

SpecTick == InitMonitor /\ [][NextTick]_vars

\* the monitoring goroutine over every table of LoopTables
InitMonitorLoop ==
  /\ InitIdle
  /\ srCall = NoCall
  /\ rdCall = NoRead
  /\ \E t \in LoopTables :
       /\ (\A c \in t.commits : \E r \in t.repositories : r.id = c.repository_id)
       /\ repositories = t.repositories
       /\ commits = t.commits
       /\ nextRepoId = Cardinality(t.repositories) + 1

NextLoop == LoopStep /\ UNCHANGED <<dbVars, srCall, rdCall, biVars, fcVars, prVars, svVars, cwVars, cfVars>>

SpecLoop == InitMonitorLoop /\ [][NextLoop]_vars

\* the goroutines of a tick are scheduled and their calls return; the loop
\* goes on after a tick; a select with ctx.Done() ready again and again
\* takes that case at some point, the choice among ready cases being random
FairLoop ==
  /\ WF_<<tkVars, mlVars>>(LoopTickRun)
  /\ WF_<<tkVars, mlVars>>(LoopAfterTick)
  /\ SF_<<tkVars, mlVars>>(LoopStop)

SpecLoopFair == SpecLoop /\ FairLoop

----------------------------------------------------------------------------
(***************************************************************************)
(* The claims.                                                             *)
(***************************************************************************)

\* the row stored for the hash of c, as the open transaction sees it
RowsOf(tbl, sha) == {r \in tbl : r.sha = sha}

\* C1: the stored timestamp of a commit hash never decreases: in every step,
\* committed or inside the open transaction, a stored record either stays as
\* it is or is replaced by one with a strictly newer timestamp; a rollback
\* only restores committed records.
C1_MonotonicAdvance ==
  [][/\ \A r \in commits : \E q \in commits' :
          q.sha = r.sha /\ (q = r \/ q.date > r.date)
     /\ (biPc = "workers" /\ biPc' = "workers") =>
          \A r \in TxView : \E q \in TxView' :
             q.sha = r.sha /\ (q = r \/ q.date > r.date)]_vars

\* C1 witness: a record not newer than the stored one for its hash, and
\* differing from it, was written and its transaction committed
C1_Witness ==
  biPc = "returned" /\ biResult = Nil /\ biStale /\ biOk = biLen

\* C2: a BatchInsert call on a non-empty list returns either nil with every
\* record written once and all of them committed, or an error with the
\* committed rows exactly those before the call; an error collected from any
\* chunk makes it the second.
C2_AllOrNothing ==
  (biPc = "returned" /\ biLen > 0) =>
     /\ \/ biResult = Nil /\ commits = biAll /\ biOk = biLen
        \/ biResult # Nil /\ commits = biPre
     /\ Len(biErrChan) > 0 => biResult # Nil

\* C2 witness: two chunks, a statement succeeded and changed the
\* transaction's rows, another failed, and the call returned an error
C2_Witness ==
  /\ biPc = "returned"
  /\ biResult # Nil
  /\ Cardinality(DOMAIN biWorker) = 2
  /\ biOk >= 1
  /\ Len(biErrChan) = 1
  /\ biAll # biPre
  /\ commits = biPre

\* C7 as claimed: for an entity that owns a record, GetLatestDate of its name
\* is the maximum date among the records of that entity alone.
C7_CursorIsEntityMax ==
  \A r \in repositories :
    OwnDates(r) # {} => GetLatestDate(r.name) = [date |-> Max(OwnDates(r)), err |-> Nil]

\* C9: no two stored repositories share (owner, name), and a stored row keeps
\* its id and its identity in every step.
C9_IdentityUnique ==
  /\ [](\A r, q \in repositories : (r.owner = q.owner /\ r.name = q.name) => r = q)
  /\ [][\A r \in repositories : \E q \in repositories' :
           q.id = r.id /\ q.owner = r.owner /\ q.name = r.name]_vars

\* C9 witness: two calls stored the same identity and one row is there
C9_Witness ==
  nextRepoId = 3 /\ Cardinality(repositories) = 1

\* the rows of the identity of the last successful StoreRepository
LastStored == {r \in repositories : r.owner = srCall.repo.owner /\ r.name = srCall.repo.name}

\* the fields the statement's SET list names
SameUpdatable(r, repo) ==
  /\ r.url = repo.url
  /\ r.updated_at = repo.updated_at
  /\ r.description = repo.description
  /\ r.language = repo.language
  /\ r.forks_count = repo.forks_count
  /\ r.stars_count = repo.stars_count
  /\ r.open_issues_count = repo.open_issues_count
  /\ r.watchers_count = repo.watchers_count

\* C10 as claimed: after a successful StoreRepository there is exactly one
\* row of its identity, and all its fields, the creation timestamp included,
\* are the snapshot's.
C10_SecondSnapshotWins ==
  (srCall # NoCall /\ srCall.err = Nil) =>
     /\ Cardinality(LastStored) = 1
     /\ \A r \in LastStored : SameUpdatable(r, srCall.repo) /\ r.created_at = srCall.repo.created_at

\* C10 amended: exactly one row of the identity, its description, URL,
\* language, counts and update timestamp are the last snapshot's, and the
\* creation timestamp of a stored row never changes.
C10_OverwriteKeepsCreated ==
  /\ []((srCall # NoCall /\ srCall.err = Nil) =>
          /\ Cardinality(LastStored) = 1
          /\ \A r \in LastStored : SameUpdatable(r, srCall.repo))
  /\ [][\A r \in repositories : \E q \in repositories' :
           q.id = r.id /\ q.created_at = r.created_at]_vars

\* C10 witness: the second store of an identity, with other field values and
\* another creation timestamp than the stored ones
C10_Witness ==
  /\ nextRepoId = 3
  /\ srCall.err = Nil
  /\ Cardinality(repositories) = 1
  /\ \A r \in repositories :
       r.created_at # srCall.repo.created_at /\ r.language = srCall.repo.language
       /\ r.language = 2

\* the header carries rel="next"
HasRelNext(l) ==
  \E i \in 1..Len(l) :
    i + 9 <= Len(l)
      /\ SubSeq(l, i, i + 9) = <<"r", "e", "l", "=", "\"", "n", "e", "x", "t", "\"">>

\* the page at which the claimed rule stops: it is empty or has no next link
StopsAt(script, k) == script[k].n = 0 \/ ~HasRelNext(script[k].link)
HasLastPage(script) == \E k \in 1..Len(script) : StopsAt(script, k)
LastPage(script) ==
  CHOOSE k \in 1..Len(script) : StopsAt(script, k) /\ \A j \in 1..(k - 1) : ~StopsAt(script, j)

RECURSIVE PagesUpTo(_, _)
PagesUpTo(script, k) ==
  IF k = 0 THEN <<>> ELSE PagesUpTo(script, k - 1) \o BodyOf(k, script[k])

\* C3 as claimed: against a server whose pages all answer 200 with a body
\* that decodes, the call
\* requests the pages 1, 2, ... up to the first that is empty or carries no
\* rel="next" link and returns the concatenation of their records in page
\* order; two pages of one record, the first with the link, give two records.
C3_AllPagesInOrder ==
  (/\ fcPc = "returned"
   /\ HasLastPage(fcServer)
   /\ \A k \in 1..LastPage(fcServer) : fcServer[k].status = StatusOK /\ fcServer[k].json) =>
     /\ fcResult = [commits |-> PagesUpTo(fcServer, LastPage(fcServer)), err |-> Nil]
     /\ Len(fcReqs) = LastPage(fcServer)
     /\ \A k \in 1..Len(fcReqs) : <<"page", k>> \in fcReqs[k]

RateLimited(r) == r.status = StatusForbidden /\ r.remaining = "0"

\* C4 as claimed: a request answered by the rate-limit signal with reset
\* time T, not itself a retry, is followed, not before T, by exactly one
\* more request of the same page; when that one is answered 200 its records
\* are returned with a nil error, and when it is rate-limited again the call
\* ends with no further request.
C4_WaitThenRetryOnce ==
  fcPc = "returned" =>
    \A i \in 1..Len(fcReqs) :
      (/\ i <= Len(fcServer)
       /\ RateLimited(fcServer[i])
       /\ (i = 1 \/ ~RateLimited(fcServer[i - 1]))) =>
         /\ fcClock >= fcServer[i].reset
         /\ Len(fcReqs) >= i + 1
         /\ fcReqs[i + 1] = fcReqs[i]
         /\ (i + 1 <= Len(fcServer) /\ RateLimited(fcServer[i + 1])) =>
               Len(fcReqs) = i + 1 /\ fcResult.err # Nil
         /\ (i = 1 /\ Len(fcServer) = 2 /\ fcServer[2].status = StatusOK) =>
               fcResult = [commits |-> BodyOf(2, fcServer[2]), err |-> Nil]

IsPrefix(s, t) == Len(s) <= Len(t) /\ s = SubSeq(t, 1, Len(s))

\* C6: the collaborator calls of a pass are, in order, a prefix of FetchRepo,
\* StoreRepository, GetByName, FetchCommits, BatchInsert (so none is made
\* twice); the pass is always at the call after the last one made; once a
\* call has failed the pass has returned, that call is the last one made, and
\* the returned error wraps the error the call returned.
C6_LinearNoRetry ==
  /\ IsPrefix(prLog, Steps)
  /\ prPc \in {"FetchRepo", "StoreRepository", "GetByName", "FetchCommits", "BatchInsert"} =>
       /\ prResult = Nil
       /\ Len(prLog) < Len(Steps)
       /\ prPc = Steps[Len(prLog) + 1]
  /\ prPc = "BatchInsertWait" => prResult = Nil /\ prLog = Steps
  /\ prResult # Nil =>
       /\ prPc \in {"returned", "idle"}
       /\ prCause.err # Nil
       /\ prResult.wrapped /\ ErrorIs(prResult, prCause.err.kind)
       /\ IF prLog = <<>> THEN prCause.step = "" ELSE prCause.step = prLog[Len(prLog)]
  /\ (prPc = "returned" /\ prResult = Nil) =>
       \/ prLog = Steps
       \/ prLog = SubSeq(Steps, 1, 4) /\ prCommits = <<>>

\* C6 witness: StoreRepository failed after FetchRepo; nothing was called
\* after it and its error came back wrapped
C6_Witness ==
  /\ prPc = "returned"
  /\ prLog = <<"FetchRepo", "StoreRepository">>
  /\ prCause = [step |-> "StoreRepository", err |-> Wrap(DriverError)]
  /\ ErrorIs(prResult, DriverError)

\* the pass runs with since equal to the latest date of the records the
\* entity owned when it started
AtCursor ==
  \E r \in repositories :
    /\ r.owner = prOwner /\ r.name = prName
    /\ {c \in prStart : c.repository_id = r.id} # {}
    /\ prSince = Max({c.date : c \in {x \in prStart : x.repository_id = r.id}})

\* the pass before was a successful one of the same entity and the remote
\* repository is as that pass fetched it
AfterSyncUnchanged ==
  prPrev.ok /\ prPrev.owner = prOwner /\ prPrev.remote = remote[prOwner]

\* C8: a pass that follows a successful pass of the same entity, with the
\* remote unchanged and since at the entity's latest stored date, changes no
\* record: when it has returned the committed rows are those of its start,
\* no statement of it inserted or updated a row, and unless a collaborator
\* was made to fail it returned nil.
C8_SecondPassNoChange ==
  (prPc = "returned" /\ AfterSyncUnchanged /\ AtCursor) =>
     /\ commits = prStart
     /\ ~biWrote
     /\ ~prFaulty => prResult = Nil

\* C8 witness: such a second pass fetched again the records at the cursor,
\* handed them to BatchInsert and returned nil
C8_Witness ==
  /\ prPc = "returned"
  /\ AfterSyncUnchanged
  /\ AtCursor
  /\ prLog = Steps
  /\ prResult = Nil
  /\ biOk = biLen /\ biLen > 0

\* the entries of errChan a row's goroutine sent
ErrsOf(i) == {k \in 1..Len(tkErrChan) : tkErrChan[k].i = i}

\* C5: when a tick that enumerated the repositories has returned, every row
\* had its cursor looked up; the callback was invoked for every row whose
\* lookup succeeded, whatever happened to the other rows, and for no other;
\* a row whose lookup or callback failed left exactly one error in the
\* tick's error list, a row that did not fail left none, and the tick
\* returns an error exactly when the list is not empty.
C5_FailureIsolated ==
  (tkPc = "returned" /\ tkRepos # <<>>) =>
     /\ \A i \in DOMAIN tkRepos :
          /\ tkLookup[i] # "none"
          /\ tkLookup[i] = "ok" <=> tkCalled[i] # "none"
          /\ Cardinality(ErrsOf(i)) =
               (IF tkLookup[i] = "err" \/ tkCalled[i] = "err" THEN 1 ELSE 0)
     /\ tkResult # Nil <=> Len(tkErrChan) > 0

\* C5 witness: in one tick one row's cursor lookup failed, another row's
\* callback failed, and the callback of a third row completed with nil
C5_Witness ==
  /\ tkPc = "returned"
  /\ Len(tkErrChan) = 2
  /\ \E i, j, k \in DOMAIN tkRepos :
       /\ tkLookup[i] = "err"
       /\ tkCalled[j] = "err"
       /\ tkCalled[k] = "ok"
  /\ tkResult # Nil

\* C11: a BatchInsert call on an empty list returns nil, has made no storage
\* call (no BeginTx, no Prepare, no Exec, no Commit) and leaves the committed
\* rows and the transaction's rows as they were.
C11_EmptyListNoOp ==
  (biPc = "returned" /\ biLen = 0) =>
     /\ biResult = Nil
     /\ biIO = {}
     /\ biOk = 0
     /\ biRows = {}
     /\ commits = biPre

\* C11 witness: the call on the empty list returned while the table holds
\* rows of an earlier call
C11_Witness ==
  biPc = "returned" /\ biLen = 0 /\ biCalls = 2 /\ commits # {} /\ biResult = Nil

\* C12: a pass whose FetchCommits succeeded with an empty slice returns nil
\* after that step: its calls are the first four, BatchInsert is not called
\* and the commits table is the one the pass started with.
C12_EmptyFetchReturnsNil ==
  (prPc = "returned" /\ prCause = NoCause /\ prCommits = <<>> /\
   Len(prLog) >= 4 /\ prLog[4] = "FetchCommits") =>
     /\ prResult = Nil
     /\ prLog = SubSeq(Steps, 1, 4)
     /\ commits = prStart
     /\ biPc = "idle"
     /\ biIO = {}

\* C12 witness: the second pass over an entity that owns records fetched
\* nothing new and returned
C12_Witness ==
  /\ prPc = "returned"
  /\ prPasses = 2
  /\ prLog = SubSeq(Steps, 1, 4)
  /\ prCommits = <<>>
  /\ prResult = Nil
  /\ commits # {}
  /\ remote[prOwner] # NoRemote

\* C13: GetLatestDate of a name no repository row carries fails with
\* ErrRepositoryNotFound; of a name whose rows own no commit it fails with
\* ErrNoCommitsFound; the two cases never give errors of the same kind.
C13_UnknownIsNotEmpty ==
  \A n \in Names :
    /\ GetByNameRows(n) = {} => ErrorIs(GetLatestDate(n).err, ErrRepositoryNotFound)
    /\ (GetByNameRows(n) # {} /\ JoinedDates(n) = {}) =>
          ErrorIs(GetLatestDate(n).err, ErrNoCommitsFound)
    /\ \A m \in Names :
         (GetByNameRows(n) = {} /\ GetByNameRows(m) # {} /\ JoinedDates(m) = {}) =>
            GetLatestDate(n).err.kind # GetLatestDate(m).err.kind

\* the cursor lookup of row i signalled that the repository owns no commit
NoRecordsYet(i) ==
  \/ tkLookup[i] = "skip"
  \/ \E k \in ErrsOf(i) : ErrorIs(tkErrChan[k].err, ErrNoCommitsFound)

\* C14: when a tick has returned, a row whose cursor lookup signalled
\* ErrNoCommitsFound was still handed to the callback (the only path to the
\* repository's metadata refresh) and left no error in the tick's list;
\* every row whose lookup gave a date was handed to the callback with
\* that date.
C14_NoRecordsStillRefreshed ==
  (tkPc = "returned" /\ tkRepos # <<>>) =>
     \A i \in DOMAIN tkRepos :
       /\ NoRecordsYet(i) => (tkCalled[i] # "none" /\ tkLookup[i] # "err")
       /\ tkLookup[i] = "ok" =>
            /\ tkCalled[i] # "none"
            /\ tkWorker[i].date = GetLatestDate(tkRepos[i].name).date

\* C15: every error a BatchInsert call returns is matchable as
\* ErrTransactionFailed: when a row's write failed, when the transaction
\* could not be begun and when it could not be committed.
C15_FailureIsTransactionFailed ==
  (/\ biPc = "returned"
   /\ \/ Len(biErrChan) > 0
      \/ biIO = {"BeginTx"}
      \/ ("Commit" \in biIO /\ biResult # Nil)) =>
     ErrorIs(biResult, ErrTransactionFailed)

\* the request that made the call fail: the last one
FailedAt == Len(fcReqs)

\* the answer to the failed request was the rate-limit signal
FailedOnRateLimit == FailedAt <= Len(fcServer) /\ RateLimited(fcServer[FailedAt])

\* C16: a FetchCommits call that returned an error for a cause other than
\* the rate-limit signal returned no commits, whatever it had accumulated;
\* its requests are the pages 1, 2, ... once each, every one before the last
\* was answered by a page that was taken, and the last is the one that
\* failed: the connection dropped, the status was not 200, or the body did
\* not decode; the error is the one of that cause.
C16_FailureReturnsNothing ==
  (fcPc = "returned" /\ fcResult.err # Nil /\ ~FailedOnRateLimit) =>
     /\ fcResult.commits = <<>>
     /\ FailedAt >= 1
     /\ \A k \in 1..FailedAt : <<"page", k>> \in fcReqs[k]
     /\ \A k \in 1..(FailedAt - 1) :
          /\ k <= Len(fcServer)
          /\ fcServer[k].status = StatusOK /\ fcServer[k].json /\ fcServer[k].n > 0
     /\ fcAll = PagesUpTo(fcServer, FailedAt - 1)
     /\ IF FailedAt > Len(fcServer) THEN fcResult.err = Wrap(TransportError)
        ELSE IF fcServer[FailedAt].status # StatusOK
        THEN fcResult.err = StatusError(fcServer[FailedAt].status)
        ELSE ~fcServer[FailedAt].json /\ fcResult.err = Wrap(DecodeError)

\* C16 witness: the body of the second page did not decode after the first
\* page's record had been accumulated
C16_Witness ==
  /\ fcPc = "returned"
  /\ Len(fcReqs) = 2
  /\ fcAll # <<>>
  /\ ErrorIs(fcResult.err, DecodeError)
  /\ fcResult.commits = <<>>

\* the kinds of failure of FetchRepo: what the server did to its request
FailureClass(script) ==
  IF script = <<>> THEN "TransportError"
  ELSE IF script[1].status = StatusNotFound THEN "NotFound"
  ELSE IF script[1].status = StatusUnauthorized THEN "Unauthorized"
  ELSE IF script[1].status = StatusForbidden /\ ~RateLimited(script[1]) THEN "Unauthorized"
  ELSE IF script[1].status = StatusOK /\ ~script[1].json THEN "TransportError"
  ELSE "other"

\* C17: a FetchRepo call that failed as NotFound, Unauthorized or
\* TransportError sent one request and returned a nil pointer and an error
\* that wraps its cause under a matchable kind; two failures have errors of
\* the same kind exactly when they are of the same class (401 and 403 alike,
\* both unlike 404).
C17_FailureKinds ==
  (frPc = "returned" /\ FailureClass(fcServer) # "other") =>
     /\ frReqs = 1
     /\ frResult.repo = NilRepo
     /\ frResult.err # Nil
     /\ frResult.err.wrapped
     /\ \A r \in Responses :
          FailureClass(<<r>>) # "other" =>
            (FetchRepoResult(<<r>>).err.kind = frResult.err.kind
               <=> FailureClass(<<r>>) = FailureClass(fcServer))

\* C18: a StoreRepository call whose repository has an empty name or an
\* empty owner, and a GetByName or GetLatestDate call with an empty name,
\* returns ErrInvalidInput, has sent no statement to the database, and
\* leaves both tables and the id sequence as they were.
C18_InvalidInputNoIO ==
  [][/\ (srCall' # srCall /\ (srCall'.repo.name = "" \/ srCall'.repo.owner = "")) =>
          /\ ErrorIs(srCall'.err, ErrInvalidInput)
          /\ srCall'.io = 0
          /\ UNCHANGED dbVars
     /\ (rdCall' # rdCall /\ rdCall'.name = "") =>
          /\ ErrorIs(rdCall'.err, ErrInvalidInput)
          /\ rdCall'.io = 0
          /\ UNCHANGED dbVars]_vars

\* C18 witness: on a store that holds a repository, the last StoreRepository
\* call had a name and no owner, the last read had no name, and both were
\* refused
C18_Witness ==
  /\ repositories # {}
  /\ srCall.repo.owner = "" /\ srCall.repo.name # ""
  /\ ErrorIs(srCall.err, ErrInvalidInput) /\ srCall.io = 0
  /\ rdCall.op = "GetLatestDate" /\ rdCall.name = ""
  /\ ErrorIs(rdCall.err, ErrInvalidInput) /\ rdCall.io = 0

\* C19: the goroutine is stopped only when the context is cancelled; when a
\* tick ends, with an error or without, the goroutine is back at its select;
\* checkRepositories is started only from the select and by taking a tick
\* from the ticker, and runs only while the goroutine is in the tick; at the
\* select after a failed tick, a waiting tick can be taken.
C19_FailedTickLoopGoesOn ==
  /\ [](mlPc = "stopped" => ctxDone)
  /\ []((mlPc = "idle" /\ mlFailed /\ tickerC = 1) => ENABLED (\E f \in BOOLEAN : LoopTick(f)))
  /\ [][/\ (mlPc = "ticking" /\ mlPc' # "ticking") => mlPc' = "idle"
        /\ (mlPc # "ticking" /\ mlPc' = "ticking") =>
              mlPc = "idle" /\ tickerC = 1 /\ tickerC' = 0
        /\ tkVars' # tkVars => (mlPc = "ticking" \/ mlPc' = "ticking")]_vars

\* C19 witness: without cancellation, a tick is running after the tick before
\* it returned an error
C19_Witness ==
  /\ mlPc = "ticking"
  /\ tkPc = "workers"
  /\ mlFailed
  /\ ~ctxDone

\* C20: once the context is cancelled the goroutine eventually returns, and
\* once it has returned it stays so and no step of checkRepositories is
\* taken.
C20_CancelStops ==
  /\ ctxDone ~> (mlPc = "stopped")
  /\ [][mlPc = "stopped" => (mlPc' = "stopped" /\ UNCHANGED tkVars)]_vars

\* C20 witness: the goroutine returned after a cancellation that came while
\* a tick was waiting in the ticker's channel
C20_Witness ==
  /\ mlPc = "stopped"
  /\ ctxDone
  /\ tickerC = 1

\* C21: once the context is cancelled the goroutine takes no tick from the
\* ticker and checkRepositories is not called again, also when a tick is
\* waiting in ticker.C at that moment.
C21_NoTickAfterCancel ==
  [][ctxDone => (mlPc' # "ticking" \/ mlPc = "ticking") /\ (tkPc = "idle" => tkPc' = "idle")]_vars

\* C22: a BatchInsert call that returns after its context was cancelled
\* returns an error, and the commits table is the one before the call: none
\* of the rows its goroutines wrote is there, however many had written.
C22_CancelRollsBack ==
  [][(biPc = "workers" /\ biPc' = "returned" /\ ctxDone) =>
        /\ biResult' # Nil
        /\ commits' = biPre
        /\ biRows' = {}]_vars

\* C22 witness: the context was cancelled during the first call after every
\* record had been written without an error; Commit failed and the rows the
\* call would have added are not in the table
C22_Witness ==
  /\ biPc = "returned"
  /\ ctxDone
  /\ biCalls = 1
  /\ biOk = biLen /\ biLen > 1
  /\ biErrChan = <<>>
  /\ ErrorIs(biResult, ErrTransactionFailed)
  /\ commits = biPre
  /\ biAll # biPre


StoredIdentities == {<<r.owner, r.name>> : r \in repositories}
StoredHashes == {c.sha : c \in commits}

\* C24: every stored record references a stored entity, and no step removes
\* an entity or a record: the stored identities and the stored hashes only
\* grow
C24_ReferencesHoldStoreGrows ==
  /\ [](\A c \in commits : \E r \in repositories : r.id = c.repository_id)
  /\ [][/\ StoredIdentities \subseteq StoredIdentities'
        /\ StoredHashes \subseteq StoredHashes'
        /\ \A r \in repositories : \E x \in repositories' : x.id = r.id]_vars

\* an entity and a record of it are stored, and a later call that held a
\* record of an entity not stored has failed and was rolled back
C24_Witness ==
  /\ StoredIdentities # {} /\ StoredHashes # {}
  /\ biPc = "returned" /\ biResult # Nil /\ biCalls = 2
  /\ 0 < biOk /\ biOk < biLen /\ commits = biPre
  /\ \E c \in biAll : ~\E r \in repositories : r.id = c.repository_id


\* C25: no two stored records share a hash, in the committed rows and in
\* what an open transaction sees, whichever entity a record was written for
C25_HashUnique ==
  /\ \A x, y \in commits : x.sha = y.sha => x = y
  /\ \A x, y \in TxView : x.sha = y.sha => x = y

\* a call has committed a record whose hash was stored for entity 1 and which
\* was observed through entity 2: the row was updated and none was added
C25_Witness ==
  /\ biPc = "returned" /\ biResult = Nil
  /\ Cardinality(commits) = Cardinality(biPre) /\ commits # biPre
  /\ \E c \in commits : c.repository_id = 1 /\ c.message = TagOf(2)


\* C26: every record a pass for (owner, name) hands to BatchInsert references
\* the stored entity of the identity (owner, name) and carries the hash, the
\* fields and the date of a fetched commit, one record for each commit fetched
C26_RecordsOfThePassEntity ==
  prPc = "BatchInsertWait" =>
    /\ Len(prCommits) = Len(RemoteSince(prOwner, prRemote, prSince))
    /\ \A i \in DOMAIN prCommits :
         /\ \E r \in repositories :
              r.id = prCommits[i].repository_id /\ r.owner = prOwner /\ r.name = prName
         /\ \E c \in RemoteCommits(prOwner, prRemote) :
              /\ prCommits[i].sha = c.sha /\ prCommits[i].date = c.date
              /\ prCommits[i].message = c.tag /\ prCommits[i].author_name = c.tag
              /\ prCommits[i].url = c.tag


\* C27: a tick over rows that each either own no commit (the cursor lookup
\* yields ErrNoCommitsFound) or are synchronised by a callback that succeeds
\* returns no error
C27_NoRecordsIsNoTickError ==
  (/\ tkPc = "returned" /\ tkRepos # <<>>
   /\ \A i \in DOMAIN tkRepos :
        NoRecordsYet(i) \/ (tkLookup[i] = "ok" /\ tkCalled[i] = "ok")) =>
     tkResult = Nil


\* C28: when BatchInsert has decided between commit and rollback every chunk
\* worker has finished and no row of the transaction is left open; a chunk
\* that failed did not stop the others: every chunk without an error of its
\* own was written in full, so at most batchSize records for each collected
\* error are not written
C28_DecisionAfterAllChunks ==
  (biPc = "returned" /\ "Exec" \in biIO) =>
    /\ \A k \in DOMAIN biWorker : biWorker[k].pc = "done" /\ biWorker[k].batch = <<>>
    /\ biRows = {}
    /\ Len(biErrChan) <= Cardinality(DOMAIN biWorker)
    /\ biOk >= biLen - Len(biErrChan) * batchSize
    /\ ("Commit" \in biIO) # ("Rollback" \in biIO)

\* of two chunks one failed on its second record and the other was written
\* in full; the call was rolled back
C28_Witness ==
  /\ biPc = "returned" /\ biLen = batchSize + 1
  /\ Cardinality(DOMAIN biWorker) = 2
  /\ Len(biErrChan) = 1 /\ biOk = biLen - 1
  /\ "Rollback" \in biIO /\ commits = biPre /\ biResult # Nil


\* the rows of a tick in their cursor lookup or their callback, and the
\* chunk workers of a BatchInsert call in their writes
TickInProgress == {i \in DOMAIN tkWorker : tkWorker[i].pc \in {"lookup", "callback"}}
ChunksWriting == {k \in DOMAIN biWorker : biWorker[k].pc = "exec"}

\* C29: at every instant at most maxWorkers rows of a tick are in their
\* cursor lookup or their callback and at most maxWorkers chunk workers of a
\* BatchInsert call are writing, however many rows and chunks there are; a
\* chunk holds at most batchSize records
C29_BoundedConcurrency ==
  /\ Cardinality(TickInProgress) <= maxWorkers
  /\ Cardinality(ChunksWriting) <= maxWorkers
  /\ tkSem <= maxWorkers /\ biSem <= maxWorkers
  /\ \A k \in DOMAIN biWorker : Len(biWorker[k].batch) <= batchSize

\* maxWorkers chunk workers are writing full chunks and another chunk waits
\* for a slot, after a tick in which maxWorkers rows were in progress at once
\* over more rows than that
C29_Witness ==
  /\ Cardinality(ChunksWriting) = maxWorkers
  /\ \E k \in DOMAIN biWorker : biWorker[k].pc = "acquire"
  /\ \E k \in DOMAIN biWorker : Len(biWorker[k].batch) = batchSize
  /\ Cardinality(DOMAIN biWorker) > maxWorkers
  /\ tkPeak = maxWorkers
  /\ Cardinality(repositories) > maxWorkers


\* C30: a FetchCommits call whose context was cancelled while it waited out a
\* rate limit returns a cancellation error, and returns before the reset
\* time it was waiting for
C30_CancelEndsTheWait ==
  (fcPc = "returned" /\ ctxDone) =>
     /\ ErrorIs(fcResult.err, ContextCanceled)
     /\ fcClock < fcResp.r.reset


\* C31: the k-th request of a FetchCommits call asks for page k with
\* per_page 100; it carries the since of the call formatted as RFC3339 when
\* that is not the zero time and no since parameter when it is
C31_RequestParameters ==
  \A k \in 1..Len(fcReqs) :
    /\ <<"page", k>> \in fcReqs[k]
    /\ <<"per_page", 100>> \in fcReqs[k]
    /\ \A q \in fcReqs[k] :
         /\ q[1] \in {"page", "per_page", "since"}
         /\ q[1] = "page" => q[2] = k
         /\ q[1] = "per_page" => q[2] = 100
         /\ q[1] = "since" => (fcSince # 0 /\ q[2] = FormatRFC3339(fcSince))
    /\ fcSince # 0 => \E q \in fcReqs[k] : q[1] = "since"

\* a call whose since is not a whole second has sent three requests, each
\* with the since cut to its second
C31_Witness ==
  /\ Len(fcReqs) = 3 /\ fcPc = "returned"
  /\ fcSince > SubSeconds /\ fcSince % SubSeconds # 0
  /\ fcReqs[3] = {<<"page", 3>>, <<"per_page", 100>>, <<"since", fcSince \div SubSeconds>>}


\* C32: a call of ResetSyncPoint with an empty name, or with a name of which
\* no entity is stored, returns an error and starts no pass, so that nothing
\* is fetched and nothing is written; any other call either fails in its
\* lookup or starts one pass, for a stored entity of the name and with since
\* the date of the call, and no second pass is started before it returned
C32_ResetOnePassOrError ==
  [][/\ (svKind = "" /\ svKind' # "monitor" /\ (svCall' # svCall \/ svKind' = "reset")) =>
          IF svCall'.name = "" \/ GetByNameRows(svCall'.name) = {}
          THEN /\ svResult' # Nil
               /\ UNCHANGED <<dbVars, srCall, biVars, fcVars, prVars>>
          ELSE \/ /\ svResult' # Nil
                  /\ UNCHANGED <<dbVars, srCall, biVars, fcVars, prVars>>
               \/ /\ svResult' = Nil /\ svKind' = "reset"
                  /\ prPasses' = prPasses + 1
                  /\ prName' = svCall'.name /\ prSince' = svCall'.date
                  /\ \E r \in repositories : r.name = prName' /\ r.owner = prOwner'
                  /\ UNCHANGED <<dbVars, biVars>>
     /\ svKind = "reset" => prPasses' = prPasses]_vars

\* after a reset that ran its pass, a call for a name that no stored entity
\* has returned the error of the lookup
C32_Witness ==
  /\ svCall.name # "" /\ GetByNameRows(svCall.name) = {}
  /\ repositories # {}
  /\ ErrorIs(svResult, ErrRepositoryNotFound)
  /\ svPrev.kind = "reset" /\ prPasses = 1 /\ prPc = "idle"


\* the latest date GetLatestDate finds for name among the rows tbl
LatestIn(tbl, name) ==
  Max({c.date : c \in {x \in tbl : \E r \in repositories :
                                     r.id = x.repository_id /\ r.name = name}} \cup {0})

\* C33: the cursor of a name, once GetLatestDate yields one, stays defined
\* and never goes back, whatever is stored or written: records older than
\* the cursor too, and calls that fail and are rolled back
C33_CursorNeverGoesBack ==
  [][\A n \in Names :
       JoinedDates(n) # {} =>
         /\ (JoinedDates(n))' # {}
         /\ (Max(JoinedDates(n)))' >= Max(JoinedDates(n))]_vars

\* a call that held a record older than the stored one of its hash has
\* committed and has written another record; the cursor of a name is past
\* what it was before the call
C33_Witness ==
  /\ biPc = "returned" /\ biResult = Nil /\ biCalls = 2
  /\ biStale /\ biWrote /\ commits # biPre
  /\ \E n \in Names : LatestIn(biPre, n) > 0 /\ LatestIn(commits, n) > LatestIn(biPre, n)


\* C34: when a pass has returned nil and had fetched a commit, the cursor of
\* its entity is defined and is not before the latest date fetched
C34_CursorCoversFetched ==
  (prPc = "returned" /\ prResult = Nil /\ Len(prCommits) > 0) =>
     /\ GetLatestDate(prName).err = Nil
     /\ \A i \in DOMAIN prCommits : GetLatestDate(prName).date >= prCommits[i].date


\* C35: no step changes the repository a stored record references: after it
\* the record of every stored hash references the repository it referenced
\* before, whichever entity the hash is observed through again and whatever
\* the date it is observed with
C35_ReferenceKept ==
  [][\A c \in commits : \E x \in commits' :
        x.sha = c.sha /\ x.repository_id = c.repository_id]_vars

\* a call has committed a newer observation, through entity 2, of a hash
\* stored for entity 1: the date is the newer one, the reference is still 1
C35_Witness ==
  /\ biPc = "returned" /\ biResult = Nil
  /\ \E p \in biPre : \E c \in commits :
       /\ c.sha = p.sha /\ p.repository_id = 1 /\ c.repository_id = 1
       /\ p.date < c.date /\ p.message = TagOf(1) /\ c.message = TagOf(2)


\* C36: while a pass started by the monitoring callback runs, it works on
\* the owner and the name of the stored row the tick called the callback for:
\* the fetch and the upsert of the pass use the owner of that row
C36_PassOfTheTickEntity ==
  svKind = "monitor" => (prOwner = svRepo.owner /\ prName = svRepo.name)


\* C38: one fan-out at a time: the loop enumerates the repositories of a tick
\* only from its select, with no worker of an earlier tick left and every
\* slot of the semaphore given back, and checkRepositories returns to the
\* loop only when every worker of the tick has finished
C38_OneFanOutAtATime ==
  [][/\ (tkPc # "workers" /\ tkPc' = "workers") =>
          (mlPc = "idle" /\ tkSem = 0 /\ tkWorker = <<>>)
     /\ (tkPc = "workers" /\ tkPc' # "workers") =>
          \A i \in DOMAIN tkWorker : tkWorker[i].pc = "done"]_vars

\* a tick is waiting in the channel while the callbacks of the running tick,
\* which follows a tick that has ended, are in progress
C38_Witness ==
  /\ mlPc = "ticking" /\ tkPc = "workers" /\ tickerC = 1 /\ mlFailed
  /\ \E i \in DOMAIN tkWorker : tkWorker[i].pc = "callback"
  /\ \E i \in DOMAIN tkWorker : tkWorker[i].pc = "done"


\* C39: once its goroutines have been started, checkRepositories returns and
\* BatchInsert returns, however many of the lookups, callbacks and statements
\* fail: no worker stays at the semaphore or at the error channel.  And there
\* is one worker for each enumerated row and one for each chunk, and at the
\* return each of them has finished
C39_PoolsReturn ==
  /\ (tkPc = "workers") ~> (tkPc = "returned")
  /\ (biPc = "workers") ~> (biPc = "returned")
  /\ [](tkPc \in {"workers", "returned"} => DOMAIN tkWorker = DOMAIN tkRepos)
  /\ [](biPc = "workers" => DOMAIN biWorker = {k \in 0..biLen : k * batchSize < biLen})
  /\ [](tkPc = "returned" => \A i \in DOMAIN tkWorker : tkWorker[i].pc = "done")
  /\ [](biPc = "returned" => \A k \in DOMAIN biWorker : biWorker[k].pc = "done")

\* a tick over more rows than the semaphore has slots has returned with an
\* error sent for every row
C39_Witness ==
  /\ tkPc = "returned" /\ Len(tkRepos) > maxWorkers /\ tkPeak = maxWorkers
  /\ Len(tkErrChan) = Len(tkRepos)


\* the stored date of a hash, 0 when the hash is not stored
StoredDate(tbl, sha) == Max({0} \cup {r.date : r \in {x \in tbl : x.sha = sha}})

\* C37: with two invocations of BatchInsert at the same time, no step makes
\* the stored date of a hash smaller, and once both have returned the stored
\* date of every hash is the largest of the date stored before and the dates
\* the invocations that committed wrote for it
C37_ConcurrentWritesKeepLatest ==
  [][/\ \A sha \in SHAs : StoredDate(commits', sha) >= StoredDate(commits, sha)
     /\ (\A t \in Writers : cwTx'[t].pc = "done") =>
          \A sha \in SHAs :
             StoredDate(commits', sha) =
               Max({StoredDate(cwPre', sha)} \cup {e.date : e \in {x \in cwLog' : x.sha = sha}})]_vars

\* both invocations have committed, one began while the other was open, and
\* they wrote one hash with different dates
C37_Witness ==
  /\ \A t \in Writers : cwTx[t].pc = "done" /\ ~cwTx[t].err
  /\ \E t \in Writers : cwTx[t].conc
  /\ \E x \in cwLog, y \in cwLog : x.sha = y.sha /\ x.date < y.date
  /\ \E sha \in SHAs : StoredDate(commits, sha) > StoredDate(cwPre, sha)


\* C40: for every configuration Load accepts the interval of the ticker is
\* positive, and a POLL_INTERVAL that is unset or 0 gives 3600 seconds
C40_TickerIntervalPositive ==
  cfPc = "loaded" =>
    /\ TickerInterval(cfConfig) > 0
    /\ cfEnv.POLL_INTERVAL \in {"", "0"} => cfConfig.PollInterval = 3600

====
